---- MODULE Spec2Model ----
(***************************************************************************)
(* Semantic retrieval pipeline of the allowance catalog: the E5Vectorizer  *)
(* model lifecycle, the allowance_embeddings store, the embedding sync     *)
(* service, the cross-encoder reranker and VectorSearchService.search.     *)
(*                                                                         *)
(* Text is a sequence of one-character strings over {"a","b"," "} plus     *)
(* tokens standing for the literal labels the builders emit.  Embedding    *)
(* vectors are integer pairs of norm 5 (unit vectors at scale 5); scores   *)
(* are fixed-point numbers at scale 100 (1.0 = 100).                       *)
(***************************************************************************)
EXTENDS Integers, Sequences, FiniteSets, TLC

\* ------------------------------------------------------------------ bounds
NTasks     == 2      \* concurrent request tasks on the event loop
MaxCalls   == 2      \* operations started in one run
MaxLoads   == 2      \* model load attempts per component
MaxClock   == 3      \* statements the database clock advances over

Tasks == 1..NTasks
Items == {1, 2, 3, 4}   \* ids of the catalog rows, see ItemFields

\* ------------------------------------------------------- text (builders)
Chars == {"a", "b", " "}

IsSpace(c) == c = " "

RECURSIVE LStrip(_)
LStrip(s) == IF s = <<>> THEN <<>>
             ELSE IF IsSpace(Head(s)) THEN LStrip(Tail(s)) ELSE s

RECURSIVE RStrip(_)
RStrip(s) == IF s = <<>> THEN <<>>
             ELSE IF IsSpace(s[Len(s)]) THEN RStrip(SubSeq(s, 1, Len(s) - 1)) ELSE s

\* str.strip()
Strip(s) == RStrip(LStrip(s))

\* index of the first whitespace character of s, Len(s)+1 when there is none
FirstSpace(s) ==
    IF \E i \in 1..Len(s) : IsSpace(s[i])
    THEN CHOOSE i \in 1..Len(s) : IsSpace(s[i]) /\ \A j \in 1..(i - 1) : ~IsSpace(s[j])
    ELSE Len(s) + 1

\* str.split(): the whitespace-separated words of s
RECURSIVE Split(_)
Split(s) == LET t == LStrip(s) IN
            IF t = <<>> THEN <<>>
            ELSE LET n == FirstSpace(t) IN
                 <<SubSeq(t, 1, n - 1)>> \o Split(SubSeq(t, n, Len(t)))

\* sep.join(parts)
RECURSIVE Join(_, _)
Join(parts, sep) ==
    IF parts = <<>> THEN <<>>
    ELSE IF Len(parts) = 1 THEN parts[1]
    ELSE parts[1] \o sep \o Join(Tail(parts), sep)

\* TextNormalizer.normalize
Normalize(value) ==
    IF value = <<>> THEN <<>> ELSE Strip(Join(Split(value), <<" ">>))

\* catalog rows the schema admits; row 3 has only blank fields
ItemFields(i) ==
    CASE i = 1 -> [name |-> <<"a">>, npa_name |-> <<"b">>, level |-> <<>>,
                   subjects |-> <<>>, validity_period |-> <<>>]
      [] i = 2 -> [name |-> <<"b", " ">>, npa_name |-> <<"a">>, level |-> <<"a">>,
                   subjects |-> << <<"a">>, <<" ">> >>, validity_period |-> <<>>]
      [] i = 3 -> [name |-> <<" ">>, npa_name |-> <<>>, level |-> <<>>,
                   subjects |-> <<>>, validity_period |-> <<" ", " ">>]
      [] OTHER -> [name |-> <<"b", "a">>, npa_name |-> <<"b">>, level |-> <<>>,
                   subjects |-> <<>>, validity_period |-> <<"a">>]

RECURSIVE MapNormalize(_)
MapNormalize(subjects) ==
    IF subjects = <<>> THEN <<>>
    ELSE (IF Head(subjects) # <<>> THEN <<Normalize(Head(subjects))>> ELSE <<>>)
         \o MapNormalize(Tail(subjects))

\* AllowanceEmbeddingBuilder.build_document
build_document(f) ==
    LET cleaned_name     == Normalize(f.name)
        cleaned_npa      == Normalize(f.npa_name)
        cleaned_level    == Normalize(f.level)
        cleaned_validity == Normalize(f.validity_period)
        cleaned_subjects == MapNormalize(f.subjects)
        parts ==
            (IF cleaned_name # <<>> THEN << <<"name:", " ">> \o cleaned_name >> ELSE <<>>)
         \o (IF cleaned_level # <<>> THEN << <<"level:", " ">> \o cleaned_level >> ELSE <<>>)
         \o (IF cleaned_npa # <<>> THEN << <<"legal_basis:", " ">> \o cleaned_npa >> ELSE <<>>)
         \o (IF f.subjects # <<>> /\ cleaned_subjects # <<>>
             THEN << <<"eligibility:", " ">> \o Join(cleaned_subjects, <<";", " ">>) >>
             ELSE <<>>)
         \o (IF cleaned_validity # <<>> THEN << <<"validity:", " ">> \o cleaned_validity >> ELSE <<>>)
        passage == Join(parts, <<" ", "|", " ">>)
    IN IF passage = <<>> THEN <<>> ELSE <<"passage:", " ">> \o passage

ItemDocument(i) == build_document(ItemFields(i))

\* faulty variant of build_query: the prefix is put in front of the raw input
build_query_NoNormalize(user_input) == <<"query:", " ">> \o user_input

\* QueryEmbeddingBuilder.build_query
build_query(user_input) ==
    LET cleaned == Normalize(user_input) IN
    IF cleaned = <<>> THEN <<>> ELSE <<"query:", " ">> \o cleaned

\* user inputs: empty, blank, and texts with blanks to trim and collapse
Queries == {<<>>, <<" ">>, <<" ", "b">>, <<"b", " ", " ", "a">>}

\* --------------------------------------------------- vectors and scores
Dim      == 2        \* configured embedding dimension (EMBEDDING_DIM)
OtherDim == Dim + 1        \* output size of a model that does not fit the column

Scale == 4 * 25      \* fixed point: 1.0 is 100, the dot product of two unit vectors is 25

\* unit vectors at scale 5, in a fixed order
UnitVecs == << <<5, 0>>, <<4, 3>>, <<3, 4>>, <<0, 5>>, <<-3, 4>>, <<-4, 3>>,
               <<-5, 0>>, <<-4, -3>>, <<-3, -4>>, <<0, -5>>, <<3, -4>>, <<4, -3>> >>

Vectors == {UnitVecs[i] : i \in 1..Len(UnitVecs)}

Code(c) == CASE c = " " -> 0 [] c = "a" -> 1 [] c = "b" -> 2 [] c = "query:" -> 5 [] OTHER -> 3

RECURSIVE Checksum(_, _)
Checksum(text, i) ==
    IF i > Len(text) THEN 0 ELSE i * Code(text[i]) + Checksum(text, i + 1)

\* SentenceTransformer.encode(cleaned, normalize_embeddings=True): a fixed
\* function of the text; its length is the output size of the loaded model
Encode(model, text) ==
    LET v == UnitVecs[(Checksum(text, 1) % Len(UnitVecs)) + 1] IN
    IF model.out = Dim THEN v ELSE v \o <<0>>

Dot(a, b) == a[1] * b[1] + a[2] * b[2]

\* floor of the square root, for n up to (3 * Scale)^2
ISqrt(n) == CHOOSE r \in 0..(3 * Scale) : r * r <= n /\ n < (r + 1) * (r + 1)

\* Euclidean norm at scale 5 (5 for a unit vector)
Norm(a) == ISqrt(Dot(a, a))

\* pgvector "<=>": cosine distance 1 - a.b / (|a| |b|), scale 100
cosine_distance(a, b) == Scale - (Scale * Dot(a, b)) \div (Norm(a) * Norm(b))

\* pgvector "<#>": the NEGATIVE inner product, scale 100
max_inner_product(a, b) == 0 - 4 * Dot(a, b)

\* pgvector "<->": Euclidean distance, scale 100
l2_distance(a, b) ==
    LET d1 == a[1] - b[1]
        d2 == a[2] - b[2]
    IN ISqrt(400 * (d1 * d1 + d2 * d2))

Max(a, b) == IF a >= b THEN a ELSE b
Min(a, b) == IF a <= b THEN a ELSE b

\* AllowanceEmbeddingRepository._clamp_similarity
clamp_similarity(value) == Max(0 - Scale, Min(Scale, value))

\* insert x into the score-descending sequence s BEHIND the entries of equal score
RECURSIVE InsertSorted(_, _)
InsertSorted(s, x) ==
    IF s = <<>> THEN <<x>>
    ELSE IF x.score > Head(s).score THEN <<x>> \o s
    ELSE <<Head(s)>> \o InsertSorted(Tail(s), x)

\* sorted(matches, key=score, reverse=True): stable
RECURSIVE SortDesc(_, _)
SortDesc(s, acc) ==
    IF s = <<>> THEN acc ELSE SortDesc(Tail(s), InsertSorted(acc, Head(s)))

Take(s, n) == SubSeq(s, 1, Min(Len(s), n))

\* ORDER BY raw [DESC] over the joined rows; equal keys come in row-id order
RECURSIVE OrderRows(_, _, _)
OrderRows(raw, rows, desc) ==
    IF rows = {} THEN <<>>
    ELSE LET best == CHOOSE r \in rows : \A q \in rows :
                        \/ (IF desc THEN raw[r] > raw[q] ELSE raw[r] < raw[q])
                        \/ (raw[r] = raw[q] /\ r.id <= q.id)
         IN <<best>> \o OrderRows(raw, rows \ {best}, desc)


\* ------------------------------------------------------------------ state
VARIABLES
    cfg,        \* settings.vector, fixed at process start
    catalog,    \* ids of the rows of table allowances
    store,      \* the rows of table allowance_embeddings
    nextId,     \* next value of allowance_embeddings.id
    clock,      \* the database's now()
    issued,     \* history: the <<allowance_id, embedding, model>> of every upsert statement run
    vz,         \* E5Vectorizer: _model, _dimension, _load_lock (holder, waiters)
    vzStat,     \* history: loads started / failed, constructor threads alive
    rr,         \* CrossEncoderReranker: _model, _load_lock (holder, waiters)
    rrStat,     \* history: loads started / failed
    pc,         \* where each task is suspended
    op,         \* the operation each task runs
    loc,        \* each task's local variables
    res,        \* each task's outcome
    calls       \* operations started so far

vars == <<cfg, catalog, store, nextId, clock, issued, vz, vzStat, rr, rrStat,
          pc, op, loc, res, calls>>

dbVars   == <<catalog, store, nextId, clock, issued>>
rrVars   == <<rr, rrStat>>
vzVars   == <<vz, vzStat>>

NoModel  == [out |-> 0, reports |-> FALSE]
NoError  == [type |-> "none", what |-> "none", cause |-> "none", id |-> 0]
NoResult == [status |-> "none", value |-> <<>>, error |-> NoError]

Err(type, what, cause) == [type |-> type, what |-> what, cause |-> cause, id |-> 0]

\* an error whose message names an allowance id
ErrFor(type, what, cause, id) == [type |-> type, what |-> what, cause |-> cause, id |-> id]
Ok(value)   == [status |-> "ok", value |-> value, error |-> NoError]
Raised(err) == [status |-> "error", value |-> <<>>, error |-> err]

\* SentenceTransformer instances a load can produce: their output size and
\* whether get_sentence_embedding_dimension() is available
ModelInstances == {[out |-> d, reports |-> r] : d \in {Dim, OtherDim}, r \in BOOLEAN}

EmptyLoc == [phase |-> "none", pending |-> <<>>, item |-> 0, text |-> <<>>,
             vector |-> <<>>, model_name |-> "none", query |-> <<>>, limit |-> 0,
             matches |-> <<>>, cands |-> <<>>, pool |-> <<>>, lacked |-> {},
             built |-> NoModel, pend |-> NoError, at |-> 0,
             created |-> 0, had |-> {}, documents |-> <<>>,
             ids |-> <<>>, allowances |-> <<>>]

DefaultCfg == [backend |-> "e5", model_name |-> "e5-base", dimension |-> Dim,
               load_timeout_seconds |-> 300, search_limit |-> 2,
               min_score_threshold |-> 0, search_metric |-> "cosine",
               rerank_candidates |-> 2, rerank_top_k |-> 1, enable_rerank |-> FALSE]

\* E5Vectorizer.__init__ / CrossEncoderReranker.__init__ and an empty store;
\* "warm" is the instance the startup hook's warm_up has installed, NoModel
\* for a Vectorizer nobody has used yet
InitWith(c, cat, warm) ==
    /\ cfg = c
    /\ catalog = cat
    /\ store = {}
    /\ nextId = 1
    /\ clock = 0
    /\ issued = {}
    /\ vz = [model |-> warm, dimension |-> c.dimension, lock |-> 0, waiters |-> <<>>]
    /\ vzStat = [started |-> IF warm = NoModel THEN 0 ELSE 1, failed |-> 0, threads |-> 0]
    /\ rr = [model |-> FALSE, lock |-> 0, waiters |-> <<>>]
    /\ rrStat = [started |-> 0, failed |-> 0]
    /\ pc = [t \in Tasks |-> "idle"]
    /\ op = [t \in Tasks |-> "none"]
    /\ loc = [t \in Tasks |-> EmptyLoc]
    /\ res = [t \in Tasks |-> NoResult]
    /\ calls = 0

\* ------------------------------------------------------- task bookkeeping
Goto(t, label) == pc' = [pc EXCEPT ![t] = label]

\* faulty variant of wrap_index_error: the exception of index_allowance
\* leaves vectorize_allowances as it is
wrap_index_error_Raw(t, r) == r

\* vectorize_allowances lines 79-84: an exception that leaves
\* index_allowance is replaced by an EmbeddingProcessingError whose message
\* names the allowance of this round of the loop
wrap_index_error(t, r) ==
    IF op[t] = "vectorize_allowances" /\ r.status = "error" /\ loc[t].phase = "index"
    THEN Raised(ErrFor("EmbeddingProcessingError", "index_allowance_failed",
                       r.error.what, loc[t].item))
    ELSE r

\* the operation ends: its value or its exception reaches the caller
Finish(t, r) ==
    /\ pc' = [pc EXCEPT ![t] = "done"]
    /\ res' = [res EXCEPT ![t] = wrap_index_error(t, r)]

Begin(t, name, label, l) ==
    /\ pc[t] = "idle"
    /\ calls < MaxCalls
    /\ calls' = calls + 1
    /\ op' = [op EXCEPT ![t] = name]
    /\ pc' = [pc EXCEPT ![t] = label]
    /\ loc' = [loc EXCEPT ![t] = l]
    /\ res' = [res EXCEPT ![t] = NoResult]

\* the caller takes the outcome; the task is free for the next request
Return(t) ==
    /\ pc[t] = "done"
    /\ pc' = [pc EXCEPT ![t] = "idle"]
    /\ op' = [op EXCEPT ![t] = "none"]
    /\ loc' = [loc EXCEPT ![t] = EmptyLoc]
    /\ res' = [res EXCEPT ![t] = NoResult]
    /\ UNCHANGED <<cfg, dbVars, vzVars, rrVars, calls>>

\* asyncio.Lock.release: the lock passes to the first waiter, in FIFO order
Released(l) ==
    IF l.waiters = <<>> THEN [l EXCEPT !.lock = 0]
    ELSE [l EXCEPT !.lock = Head(l.waiters), !.waiters = Tail(l.waiters)]

\* --------------------------------------------------------- E5Vectorizer
\* where a caller of _ensure_model_loaded continues once it holds the model
AfterModel(t) == IF op[t] = "warm_up" THEN "done" ELSE "encode"

\* faulty variant of EnsureEnter: a caller that finds no model starts a
\* load whether or not another caller holds the lock
EnsureEnter_NoLock(t) ==
    IF vz.model # NoModel
    THEN /\ pc' = [pc EXCEPT ![t] = AfterModel(t)]
         /\ res' = [res EXCEPT ![t] = IF op[t] = "warm_up" THEN Ok(<<>>) ELSE @]
         /\ UNCHANGED <<vz, vzStat>>
    ELSE /\ vzStat.started < MaxLoads
         /\ vz' = [vz EXCEPT !.lock = t]
         /\ vzStat' = [vzStat EXCEPT !.started = @ + 1]
         /\ Goto(t, "ld_mkdirs")
         /\ UNCHANGED res

\* _ensure_model_loaded up to its first suspension: the unlocked check, then
\* "async with self._load_lock" (taken at once when free, queued otherwise)
EnsureEnter(t) ==
    IF vz.model # NoModel
    THEN /\ pc' = [pc EXCEPT ![t] = AfterModel(t)]
         /\ res' = [res EXCEPT ![t] = IF op[t] = "warm_up" THEN Ok(<<>>) ELSE @]
         /\ UNCHANGED <<vz, vzStat>>
    ELSE IF vz.lock = 0
    THEN /\ vzStat.started < MaxLoads
         /\ vz' = [vz EXCEPT !.lock = t]
         /\ vzStat' = [vzStat EXCEPT !.started = @ + 1]
         /\ Goto(t, "ld_mkdirs")
         /\ UNCHANGED res
    ELSE /\ vz' = [vz EXCEPT !.waiters = Append(@, t)]
         /\ Goto(t, "ld_wait")
         /\ UNCHANGED <<vzStat, res>>

\* warm_up
WarmUp(t) ==
    /\ Begin(t, "warm_up", "resume", EmptyLoc)
    /\ UNCHANGED <<cfg, dbVars, vzVars, rrVars>>

WarmUpEnter(t) ==
    /\ pc[t] = "resume"
    /\ op[t] = "warm_up"
    /\ EnsureEnter(t)
    /\ UNCHANGED <<cfg, dbVars, rrVars, op, loc, calls>>

\* embed_text (called directly, as vectorize_user_input does after build_query)
EmbedText(t, text) ==
    /\ Begin(t, "embed_text", "resume", [EmptyLoc EXCEPT !.phase = "direct", !.text = text])
    /\ UNCHANGED <<cfg, dbVars, vzVars, rrVars>>

\* faulty variant of EmbedEnter: the model is obtained whatever the text is
EmbedEnter_NoEmptyCheck(t) ==
    /\ pc[t] = "resume"
    /\ op[t] = "embed_text"
    /\ loc' = [loc EXCEPT ![t].text = Strip(loc[t].text)]
    /\ EnsureEnter(t)
    /\ UNCHANGED <<cfg, dbVars, rrVars, op, calls>>

\* embed_text lines 111-115: strip, empty => [], else _ensure_model_loaded
EmbedEnter(t) ==
    /\ pc[t] = "resume"
    /\ op[t] = "embed_text"
    /\ LET cleaned == Strip(loc[t].text) IN
       IF cleaned = <<>>
       THEN /\ Finish(t, Ok(<<>>))
            /\ UNCHANGED <<vz, vzStat, loc>>
       ELSE /\ loc' = [loc EXCEPT ![t].text = cleaned]
            /\ EnsureEnter(t)
    /\ UNCHANGED <<cfg, dbVars, rrVars, op, calls>>

\* --- the offline fallback Vectorizer and the factory that selects it
\* create_vectorizer: the implementation the backend setting selects
create_vectorizer(backend) == IF backend = "hash" THEN "hash" ELSE "e5"

\* faulty variant of hash_embed: the vector also depends on how many
\* operations have been started so far
hash_embed_Stateful(text) ==
    UnitVecs[((Checksum(text, 1) + calls) % Len(UnitVecs)) + 1]

\* the fallback's vector: a unit vector of the configured length that is a
\* fixed function of the text
hash_embed(text) == UnitVecs[(Checksum(text, 1) % Len(UnitVecs)) + 1]

\* embed_text of the fallback: no model, the empty vector for a blank text
HashEmbedEnter(t) ==
    /\ pc[t] = "resume"
    /\ op[t] = "embed_text"
    /\ LET cleaned == Strip(loc[t].text) IN
       Finish(t, Ok(IF cleaned = <<>> THEN <<>> ELSE hash_embed(cleaned)))
    /\ UNCHANGED <<cfg, dbVars, vzVars, rrVars, op, loc, calls>>

\* warm_up of the fallback: there is nothing to load
HashWarmUpEnter(t) ==
    /\ pc[t] = "resume"
    /\ op[t] = "warm_up"
    /\ Finish(t, Ok(<<>>))
    /\ UNCHANGED <<cfg, dbVars, vzVars, rrVars, op, loc, calls>>

\* faulty variant of LockGranted: a queued caller loads without looking at
\* self._model again once it holds the lock
LockGranted_NoRecheck(t) ==
    /\ pc[t] = "ld_wait"
    /\ vz.lock = t
    /\ vzStat.started < MaxLoads
    /\ vzStat' = [vzStat EXCEPT !.started = @ + 1]
    /\ Goto(t, "ld_mkdirs")
    /\ UNCHANGED <<vz, res>>
    /\ UNCHANGED <<cfg, dbVars, rrVars, op, loc, calls>>

\* the lock is handed to a queued caller: second check under the lock
LockGranted(t) ==
    /\ pc[t] = "ld_wait"
    /\ vz.lock = t
    /\ IF vz.model # NoModel
       THEN /\ vz' = Released(vz)
            /\ pc' = [pc EXCEPT ![t] = AfterModel(t)]
            /\ res' = [res EXCEPT ![t] = IF op[t] = "warm_up" THEN Ok(<<>>) ELSE @]
            /\ UNCHANGED vzStat
       ELSE /\ vzStat.started < MaxLoads
            /\ vzStat' = [vzStat EXCEPT !.started = @ + 1]
            /\ Goto(t, "ld_mkdirs")
            /\ UNCHANGED <<vz, res>>
    /\ UNCHANGED <<cfg, dbVars, rrVars, op, loc, calls>>

\* faulty variant of LoadFails: the lock is taken and released by hand and
\* the release is skipped on the exception path
LoadFails_KeepLock(t, err) ==
    /\ vz' = vz
    /\ Finish(t, Raised(err))

\* an exception leaves "async with": the lock is released, the model stays unset
LoadFails(t, err) ==
    /\ vz' = Released(vz)
    /\ Finish(t, Raised(err))

\* os.makedirs returned; _run_preflight_checks passes or raises
MakedirsDone(t, ok) ==
    /\ pc[t] = "ld_mkdirs"
    /\ IF ok
       THEN /\ Goto(t, "ld_download")
            /\ UNCHANGED <<vz, vzStat, res>>
       ELSE /\ LoadFails(t, Err("RuntimeError", "preflight", "none"))
            /\ vzStat' = [vzStat EXCEPT !.failed = @ + 1]
    /\ UNCHANGED <<cfg, dbVars, rrVars, op, loc, calls>>

LoadOutcomes == {"ok", "timeout", "error"}

\* _download_model_snapshot: wait_for(snapshot_download) returns, times out or raises
DownloadDone(t, outcome) ==
    /\ pc[t] = "ld_download"
    /\ IF outcome = "ok"
       THEN /\ Goto(t, "ld_construct")
            /\ vzStat' = [vzStat EXCEPT !.threads = @ + 1]
            /\ UNCHANGED <<vz, res>>
       ELSE /\ LoadFails(t, Err("RuntimeError", "download_failed",
                                IF outcome = "timeout" THEN "download_timeout" ELSE "download_error"))
            /\ vzStat' = [vzStat EXCEPT !.failed = @ + 1]
    /\ UNCHANGED <<cfg, dbVars, rrVars, op, loc, calls>>

\* wait_for(to_thread(SentenceTransformer, path), timeout): the constructor
\* returns an instance or raises, or the wait times out while the worker
\* thread keeps running; the finally block then awaits the progress task
ConstructDone(t, outcome, instance) ==
    /\ pc[t] = "ld_construct"
    /\ loc' = [loc EXCEPT ![t].built = IF outcome = "ok" THEN instance ELSE NoModel,
                          ![t].pend = CASE outcome = "ok" -> NoError
                                        [] outcome = "timeout" ->
                                             Err("RuntimeError", "load_timeout", "TimeoutError")
                                        [] OTHER -> Err("RuntimeError", "load_failed", "constructor")]
    /\ vzStat' = [vzStat EXCEPT !.threads = IF outcome = "timeout" THEN @ ELSE @ - 1]
    /\ Goto(t, "ld_finally")
    /\ UNCHANGED <<cfg, dbVars, rrVars, vz, op, res, calls>>

\* a constructor thread abandoned by a timed-out wait runs to its end
OrphanFinish ==
    /\ vzStat.threads > Cardinality({t \in Tasks : pc[t] = "ld_construct"})
    /\ vzStat' = [vzStat EXCEPT !.threads = @ - 1]
    /\ UNCHANGED <<cfg, dbVars, rrVars, vz, pc, op, loc, res, calls>>

\* _determine_model_dimension: None when the model cannot tell
determine_model_dimension(model) == IF model.reports THEN model.out ELSE -1

\* faulty variant of validate_model_dimension: the comparison with a
\* positive configured dimension is missing
validate_model_dimension_NoCompare(dimension, model) ==
    IF determine_model_dimension(model) # -1 /\ dimension <= 0 THEN "adopt" ELSE "ok"

\* _validate_model_dimension: "ok", "adopt" or "mismatch"
validate_model_dimension(dimension, model) ==
    LET model_dim == determine_model_dimension(model) IN
    IF model_dim = -1 THEN "ok"
    ELSE IF dimension <= 0 THEN "adopt"
    ELSE IF model_dim # dimension THEN "mismatch"
    ELSE "ok"

\* the progress task has ended: re-raise, or validate the dimension and
\* install the model (lines 236-246)
ProgressDone(t) ==
    /\ pc[t] = "ld_finally"
    /\ IF loc[t].pend # NoError
       THEN /\ LoadFails(t, loc[t].pend)
            /\ vzStat' = [vzStat EXCEPT !.failed = @ + 1]
       ELSE LET verdict == validate_model_dimension(vz.dimension, loc[t].built) IN
            IF verdict = "mismatch"
            THEN /\ LoadFails(t, Err("RuntimeError", "dimension_mismatch", "none"))
                 /\ vzStat' = [vzStat EXCEPT !.failed = @ + 1]
            ELSE /\ vz' = Released([vz EXCEPT
                              !.model = loc[t].built,
                              !.dimension = IF verdict = "adopt" THEN loc[t].built.out ELSE @])
                 /\ pc' = [pc EXCEPT ![t] = AfterModel(t)]
                 /\ res' = [res EXCEPT ![t] = IF op[t] = "warm_up" THEN Ok(<<>>) ELSE @]
                 /\ UNCHANGED vzStat
    /\ loc' = [loc EXCEPT ![t].built = NoModel, ![t].pend = NoError]
    /\ UNCHANGED <<cfg, dbVars, rrVars, op, calls>>

\* faulty variant of EncodeDone: the vector is passed on whatever its length
EncodeDone_NoLengthCheck(t, ok) ==
    /\ pc[t] = "encode"
    /\ IF ~ok
       THEN /\ Finish(t, Raised(Err("Exception", "encode_failed", "none")))
            /\ UNCHANGED loc
       ELSE LET vector == Encode(vz.model, loc[t].text) IN
            /\ loc' = [loc EXCEPT ![t].vector = vector]
            /\ CASE loc[t].phase = "index" -> Goto(t, "upsert") /\ UNCHANGED res
                 [] loc[t].phase = "query" -> Goto(t, "sbv") /\ UNCHANGED res
                 [] OTHER -> Finish(t, Ok(vector))
    /\ UNCHANGED <<cfg, dbVars, vzVars, rrVars, op, calls>>

\* to_thread(model.encode) returned or raised; the length check of lines
\* 124-127; the vector goes back to index_allowance (lines 41-44), to search
\* (lines 83-84) or to the caller
EncodeDone(t, ok) ==
    /\ pc[t] = "encode"
    /\ IF ~ok
       THEN /\ Finish(t, Raised(Err("Exception", "encode_failed", "none")))
            /\ UNCHANGED loc
       ELSE LET vector == Encode(vz.model, loc[t].text) IN
            IF Len(vector) # vz.dimension
            THEN /\ Finish(t, Raised(Err("ValueError", "embedding_size", "none")))
                 /\ UNCHANGED loc
            ELSE /\ loc' = [loc EXCEPT ![t].vector = vector]
                 /\ CASE loc[t].phase = "index" ->
                           Goto(t, IF vector = <<>> THEN "resume" ELSE "upsert") /\ UNCHANGED res
                      [] loc[t].phase = "query" ->
                           IF vector = <<>> THEN Finish(t, Ok(<<>>))
                           ELSE Goto(t, "sbv") /\ UNCHANGED res
                      [] OTHER -> Finish(t, Ok(vector))
    /\ UNCHANGED <<cfg, dbVars, vzVars, rrVars, op, calls>>

\* ------------------------------------------- AllowanceEmbeddingRepository
HasRow(rows, i) == \E r \in rows : r.allowance_id = i
RowsOf(rows, i) == {r \in rows : r.allowance_id = i}

\* faulty variant of upsert_embedding: the conflict branch sets the vector
\* and leaves the model identifier of the earlier call in place
upsert_embedding_VectorOnly(rows, allowance_id, embedding, model_name, id, now) ==
    IF HasRow(rows, allowance_id)
    THEN {IF r.allowance_id = allowance_id
          THEN [r EXCEPT !.embedding = embedding]
          ELSE r : r \in rows}
    ELSE rows \cup {[id |-> id, allowance_id |-> allowance_id, embedding |-> embedding,
                     embedding_model |-> model_name, created_at |-> now]}

\* INSERT ... ON CONFLICT (allowance_id) DO UPDATE SET embedding, embedding_model
\* as one statement: the table after it.  A new row takes the next id and
\* now() as created_at; a conflicting row keeps both
upsert_embedding(rows, allowance_id, embedding, model_name, id, now) ==
    IF HasRow(rows, allowance_id)
    THEN {IF r.allowance_id = allowance_id
          THEN [r EXCEPT !.embedding = embedding, !.embedding_model = model_name]
          ELSE r : r \in rows}
    ELSE rows \cup {[id |-> id, allowance_id |-> allowance_id, embedding |-> embedding,
                     embedding_model |-> model_name, created_at |-> now]}

RECURSIVE Ascending(_)
Ascending(S) ==
    IF S = {} THEN <<>>
    ELSE LET m == CHOOSE i \in S : \A j \in S : i <= j IN <<m>> \o Ascending(S \ {m})

\* faulty variant of list_allowances_without_embeddings: the filter on the
\* missing embedding row is lost and every catalog row is listed
list_allowances_AllRows == Ascending(catalog)

\* list_allowances_without_embeddings: the anti-join, rows in id order
list_allowances_without_embeddings ==
    Ascending({i \in catalog : ~HasRow(store, i)})

Lower(metric) == CASE metric = "COSINE" -> "cosine" [] metric = "L2" -> "l2" [] OTHER -> metric

\* faulty variant of MetricBranch: an unknown name falls back to cosine
MetricBranch_DefaultCosine(metric) ==
    LET normalized_metric == Lower(metric) IN
    IF normalized_metric \in {"dot", "inner_product"} THEN "dot"
    ELSE IF normalized_metric \in {"l2", "euclidean"} THEN "l2"
    ELSE "cosine"

\* the metric branch search_by_vector takes, "none" for the ValueError
MetricBranch(metric) ==
    LET normalized_metric == Lower(metric) IN
    IF normalized_metric \in {"cosine", "cos"} THEN "cosine"
    ELSE IF normalized_metric \in {"dot", "inner_product"} THEN "dot"
    ELSE IF normalized_metric \in {"l2", "euclidean"} THEN "l2"
    ELSE "none"

\* the value the statement selects for a row
RawValue(branch, stored, query) ==
    CASE branch = "cosine" -> cosine_distance(stored, query)
      [] branch = "dot"    -> max_inner_product(stored, query)
      [] OTHER             -> l2_distance(stored, query)

\* faulty variant of ToScore: an L2 distance is converted as a cosine distance
ToScore_NoL2(branch, raw) ==
    CASE branch = "dot" -> clamp_similarity(raw)
      [] OTHER          -> clamp_similarity(Scale - raw)

\* _to_results_from_distance / _to_results_from_similarity for one row
ToScore(branch, raw) ==
    CASE branch = "cosine" -> clamp_similarity(Scale - raw)
      [] branch = "dot"    -> clamp_similarity(raw)
      [] OTHER             -> clamp_similarity((Scale * Scale) \div (Scale + raw))

\* search_by_vector for a supported metric
search_by_vector(embedding, limit, metric) ==
    LET branch == MetricBranch(metric)
        joined == {r \in store : r.allowance_id \in catalog}
        raw    == [r \in joined |-> RawValue(branch, r.embedding, embedding)]
        rows   == Take(OrderRows(raw, joined, branch = "dot"), limit)
    IN [k \in 1..Len(rows) |->
           [item |-> rows[k].allowance_id, score |-> ToScore(branch, raw[rows[k]])]]

\* upsert_embedding: the statement runs and commits; RETURNING gives the row
Upsert(t) ==
    /\ pc[t] = "upsert"
    /\ clock < MaxClock
    /\ LET i    == loc[t].item
           rows == upsert_embedding(store, i, loc[t].vector, loc[t].model_name,
                                    nextId, clock + 1)
       IN /\ store' = rows
          /\ nextId' = nextId + 1
          /\ issued' = issued \cup {<<i, loc[t].vector, loc[t].model_name>>}
          /\ IF op[t] = "upsert_embedding"
             THEN Finish(t, Ok(<<CHOOSE r \in RowsOf(rows, i) : TRUE>>))
             ELSE Goto(t, "resume") /\ UNCHANGED res
    /\ clock' = clock + 1
    /\ loc' = [loc EXCEPT ![t].at = clock + 1,
                          ![t].created = @ + (IF HasRow(store, loc[t].item) THEN 0 ELSE 1)]
    /\ UNCHANGED <<cfg, catalog, vzVars, rrVars, op, calls>>

ModelNames == {"e5-base", "e5-large"}

\* the repository called directly
UpsertEmbedding(t, i, v, m) ==
    /\ i \in catalog
    /\ Begin(t, "upsert_embedding", "upsert",
             [EmptyLoc EXCEPT !.item = i, !.vector = v, !.model_name = m])
    /\ UNCHANGED <<cfg, dbVars, vzVars, rrVars>>

\* ---------------------------------------------- AllowanceEmbeddingService
\* faulty variant of SkipBlank: an item with an empty document ends the
\* loop instead of being passed over
SkipBlank_Stop(items) ==
    IF items = <<>> \/ ItemDocument(Head(items)) = <<>> THEN <<>> ELSE items

\* the items of the list whose document is not empty (the others are skipped)
RECURSIVE SkipBlank(_)
SkipBlank(items) ==
    IF items = <<>> THEN <<>>
    ELSE IF ItemDocument(Head(items)) = <<>> THEN SkipBlank(Tail(items))
    ELSE items

IndexAllowance(t, i) ==
    /\ i \in catalog
    /\ Begin(t, "index_allowance", "resume", [EmptyLoc EXCEPT !.pending = <<i>>])
    /\ UNCHANGED <<cfg, dbVars, vzVars, rrVars>>

IndexMany(t, items) ==
    /\ \A k \in 1..Len(items) : items[k] \in catalog
    /\ Begin(t, "index_many", "resume", [EmptyLoc EXCEPT !.pending = items])
    /\ UNCHANGED <<cfg, dbVars, vzVars, rrVars>>

IndexMissing(t) ==
    /\ Begin(t, "index_missing", "im_list", EmptyLoc)
    /\ UNCHANGED <<cfg, dbVars, vzVars, rrVars>>

\* AllowanceVectorizationService.vectorize_missing_allowances: it awaits index_missing
VectorizeMissingAllowances(t) ==
    /\ Begin(t, "vectorize_missing_allowances", "im_list", EmptyLoc)
    /\ UNCHANGED <<cfg, dbVars, vzVars, rrVars>>

\* AllowanceVectorizationService.vectorize_allowances(allowance_ids)
VectorizeAllowances(t, allowance_ids) ==
    /\ Begin(t, "vectorize_allowances", "va_enter", [EmptyLoc EXCEPT !.ids = allowance_ids])
    /\ UNCHANGED <<cfg, dbVars, vzVars, rrVars>>

\* vectorize_allowances lines 70-73: an empty payload is refused, otherwise
\* the allowances are asked for
VectorizeEnter(t) ==
    /\ pc[t] = "va_enter"
    /\ IF loc[t].ids = <<>>
       THEN Finish(t, Raised(Err("EmbeddingValidationError", "ids_required", "none")))
       ELSE Goto(t, "va_list") /\ UNCHANGED res
    /\ UNCHANGED <<cfg, dbVars, vzVars, rrVars, op, loc, calls>>

\* AllowanceRepository.list_by_ids: the catalog rows whose id is among ids,
\* each once, in id order
list_by_ids(ids) == Ascending({i \in catalog : \E k \in 1..Len(ids) : ids[k] = i})

\* vectorize_allowances lines 73-78: list_by_ids has returned
VectorizeListed(t) ==
    /\ pc[t] = "va_list"
    /\ LET allowances == list_by_ids(loc[t].ids) IN
       IF allowances = <<>>
       THEN /\ Finish(t, Raised(Err("EmbeddingNotFoundError", "no_allowances", "none")))
            /\ UNCHANGED loc
       ELSE /\ loc' = [loc EXCEPT ![t].pending = allowances, ![t].allowances = allowances,
                                  ![t].had = {i \in catalog : HasRow(store, i)}]
            /\ Goto(t, "resume")
            /\ UNCHANGED res
    /\ UNCHANGED <<cfg, dbVars, vzVars, rrVars, op, calls>>

\* vectorize_allowances lines 85-88: processed_ids holds the id of every
\* allowance the loop went through, missing_ids the requested ids not among them
vectorize_allowances_result(allowance_ids, allowances) ==
    [processed_ids |-> allowances,
     missing_ids |-> SelectSeq(allowance_ids,
                         LAMBDA id : \A k \in 1..Len(allowances) : allowances[k] # id)]

\* what index_many and index_missing return: they have no return value (None)
NoneValue == <<>>

\* vectorize_missing_allowances lines 99-103, "created" being what
\* index_missing returned; a number n is written <<n>>
vectorize_missing_result(created) ==
    IF created = <<0>>
    THEN Raised(Err("EmbeddingNotFoundError", "nothing_missing", "none"))
    ELSE Ok(created)

\* index_missing: the anti-join query returns
ListMissing(t) ==
    /\ pc[t] = "im_list"
    /\ loc' = [loc EXCEPT ![t].pending = list_allowances_without_embeddings,
                          ![t].had = {i \in catalog : HasRow(store, i)}]
    /\ Goto(t, "resume")
    /\ UNCHANGED <<cfg, dbVars, vzVars, rrVars, op, res, calls>>

IndexOps == {"index_allowance", "index_many", "index_missing", "search",
             "vectorize_missing_allowances", "vectorize_allowances"}

\* faulty variant of IndexNext: the item's record is deleted before the new
\* vector is computed
IndexNext_DeleteFirst(t) ==
    /\ pc[t] = "resume"
    /\ op[t] \in IndexOps
    /\ SkipBlank(loc[t].pending) # <<>>
    /\ LET rest == SkipBlank(loc[t].pending)
           i    == Head(rest)
       IN /\ loc' = [loc EXCEPT ![t].pending = Tail(rest), ![t].item = i,
                                ![t].text = Strip(ItemDocument(i)), ![t].phase = "index",
                                ![t].model_name = cfg.model_name]
          /\ store' = store \ RowsOf(store, i)
    /\ EnsureEnter(t)
    /\ UNCHANGED <<cfg, catalog, nextId, clock, issued, rrVars, op, calls>>

\* index_many's loop and index_allowance up to its first suspension: the
\* next item with a non-empty document is handed to embed_text
IndexNext(t) ==
    /\ pc[t] = "resume"
    /\ op[t] \in IndexOps
    /\ SkipBlank(loc[t].pending) # <<>>
    /\ LET rest == SkipBlank(loc[t].pending)
           i    == Head(rest)
       IN loc' = [loc EXCEPT ![t].pending = Tail(rest), ![t].item = i,
                             ![t].text = Strip(ItemDocument(i)), ![t].phase = "index",
                             ![t].model_name = cfg.model_name]
    /\ EnsureEnter(t)
    /\ UNCHANGED <<cfg, dbVars, rrVars, op, calls>>

\* index_many has gone through its list: the operation returns None
IndexDone(t) ==
    /\ pc[t] = "resume"
    /\ op[t] \in IndexOps \ {"search"}
    /\ SkipBlank(loc[t].pending) = <<>>
    /\ Finish(t, CASE op[t] = "vectorize_missing_allowances" ->
                         vectorize_missing_result(NoneValue)
                   [] op[t] = "vectorize_allowances" ->
                         Ok(<<vectorize_allowances_result(loc[t].ids, loc[t].allowances)>>)
                   [] OTHER -> Ok(NoneValue))
    /\ UNCHANGED <<cfg, dbVars, vzVars, rrVars, op, loc, calls>>

\* ---------------------------------------------------- VectorSearchService
MaxLimit == 2        \* largest limit a caller passes
Limits == 0..MaxLimit            \* 0 stands for "no limit given"

\* __init__ lines 37-42
DefaultLimit(c)     == c.search_limit
\* faulty variant of RerankCandidates: the configured pool size as it is
RerankCandidates_Configured(c) == c.rerank_candidates

RerankCandidates(c) == Max(c.rerank_candidates, DefaultLimit(c))
RerankTopK(c)       == Max(1, c.rerank_top_k)
RerankEnabled(c)    == c.enable_rerank

\* "limit or self._default_limit"
RequestedLimit(c, limit) == IF limit = 0 THEN DefaultLimit(c) ELSE limit

SearchLimit(c, limit) == Max(RequestedLimit(c, limit), RerankCandidates(c))

\* faulty variant of filter_by_score: a score equal to the threshold is dropped
filter_by_score_Strict(c, matches) ==
    IF c.min_score_threshold <= 0 THEN matches
    ELSE SelectSeq(matches, LAMBDA m : m.score > c.min_score_threshold)

\* _filter_by_score
filter_by_score(c, matches) ==
    IF c.min_score_threshold <= 0 THEN matches
    ELSE SelectSeq(matches, LAMBDA m : m.score >= c.min_score_threshold)

\* faulty variant of truncate_sorted: sorted, but the limit is not applied
truncate_sorted_NoLimit(matches, limit) == SortDesc(matches, <<>>)

\* _truncate_sorted
truncate_sorted(matches, limit) == Take(SortDesc(matches, <<>>), limit)

\* _sorted_by_score over the DTOs
sorted_by_score(results) == SortDesc(results, <<>>)

\* _build_documents: the non-empty documents of the pool, in pool order
RECURSIVE build_documents(_)
build_documents(matches) ==
    IF matches = <<>> THEN <<>>
    ELSE (IF ItemDocument(Head(matches).item) # <<>>
          THEN <<ItemDocument(Head(matches).item)>> ELSE <<>>)
         \o build_documents(Tail(matches))

\* CrossEncoder.predict for one (query, document) pair: a fixed function
CrossScore(query, document) ==
    (7 * Checksum(query, 1) + 13 * Checksum(document, 1)) % (Scale + 1)

\* _rerank lines 163-169: zip(pool, scores, strict=False)
Zip(pool, scores) ==
    [k \in 1..Min(Len(pool), Len(scores)) |-> [item |-> pool[k].item, score |-> scores[k]]]

RerankLimit(c, limit) == Min(RequestedLimit(c, limit), RerankTopK(c))

RerankPool(c, limit, candidates) ==
    Take(candidates, Max(RerankCandidates(c), RerankLimit(c, limit)))

\* TRUE when _rerank reaches self._reranker.score (line 162)
RerankApplies(c, user_query, limit, candidates) ==
    /\ RerankEnabled(c)
    /\ candidates # <<>>
    /\ Normalize(user_query) # <<>>
    /\ build_documents(RerankPool(c, limit, candidates)) # <<>>

Search(t, query_text, limit) ==
    /\ Begin(t, "search", "im_list",
             [EmptyLoc EXCEPT !.query = query_text, !.limit = limit,
                              !.lacked = {i \in catalog : ~HasRow(store, i)}])
    /\ UNCHANGED <<cfg, dbVars, vzVars, rrVars>>

\* search lines 78-82: index_missing has returned; build_query, then embed_text
BuildQuery(t) ==
    /\ pc[t] = "resume"
    /\ op[t] = "search"
    /\ SkipBlank(loc[t].pending) = <<>>
    /\ LET normalized_query == build_query(loc[t].query) IN
       IF normalized_query = <<>>
       THEN /\ Finish(t, Ok(<<>>))
            /\ UNCHANGED <<loc, vz, vzStat>>
       ELSE /\ loc' = [loc EXCEPT ![t].pending = <<>>, ![t].text = Strip(normalized_query),
                                  ![t].phase = "query"]
            /\ EnsureEnter(t)
    /\ UNCHANGED <<cfg, dbVars, rrVars, op, calls>>

\* search lines 86-92: the similarity statement runs, or the metric is rejected
SearchByVector(t) ==
    /\ pc[t] = "sbv"
    /\ IF MetricBranch(cfg.search_metric) = "none"
       THEN /\ Finish(t, Raised(Err("ValueError", "unsupported_metric", "none")))
            /\ UNCHANGED loc
       ELSE IF op[t] = "search_by_vector"
       THEN /\ Finish(t, Ok(search_by_vector(loc[t].vector, loc[t].limit, cfg.search_metric)))
            /\ UNCHANGED loc
       ELSE /\ loc' = [loc EXCEPT ![t].matches =
                          search_by_vector(loc[t].vector, SearchLimit(cfg, loc[t].limit),
                                           cfg.search_metric)]
            /\ Goto(t, "filter")
            /\ UNCHANGED res
    /\ UNCHANGED <<cfg, dbVars, vzVars, rrVars, op, calls>>

\* search lines 93-104 and _rerank up to the reranker's first suspension
FilterAndRerank(t) ==
    /\ pc[t] = "filter"
    /\ LET filtered_matches == filter_by_score(cfg, loc[t].matches)
           limit == RequestedLimit(cfg, loc[t].limit)
           pool  == RerankPool(cfg, loc[t].limit, filtered_matches)
       IN IF filtered_matches = <<>>
          THEN /\ Finish(t, Ok(<<>>))
               /\ UNCHANGED <<loc, rr, rrStat>>
          ELSE IF ~RerankApplies(cfg, loc[t].query, loc[t].limit, filtered_matches)
          THEN /\ Finish(t, Ok(sorted_by_score(truncate_sorted(filtered_matches, limit))))
               /\ loc' = [loc EXCEPT ![t].cands = filtered_matches]
               /\ UNCHANGED <<rr, rrStat>>
          ELSE /\ loc' = [loc EXCEPT ![t].cands = filtered_matches, ![t].pool = pool]
               /\ UNCHANGED res
               /\ IF rr.model
                  THEN Goto(t, "rr_predict") /\ UNCHANGED <<rr, rrStat>>
                  ELSE IF rr.lock = 0
                  THEN /\ rrStat.started < MaxLoads
                       /\ rr' = [rr EXCEPT !.lock = t]
                       /\ rrStat' = [rrStat EXCEPT !.started = @ + 1]
                       /\ Goto(t, "rr_load")
                  ELSE /\ rr' = [rr EXCEPT !.waiters = Append(@, t)]
                       /\ Goto(t, "rr_wait")
                       /\ UNCHANGED rrStat
    /\ UNCHANGED <<cfg, dbVars, vzVars, op, calls>>

\* ---------------------------------------------------- CrossEncoderReranker
\* CrossEncoderReranker.__init__: the configured timeout is kept as it is;
\* wait_for is used only when it is positive (lines 60-63)
rerank_load_timeout(c) == c.load_timeout_seconds

\* where a caller goes on once _ensure_model_loaded has returned the model
AfterRerankModel(t) ==
    IF op[t] = "rerank_warm_up"
    THEN Finish(t, Ok(<<>>))
    ELSE Goto(t, "rr_predict") /\ UNCHANGED res

\* CrossEncoderReranker.score(query, documents), called on its own
RerankScore(t, query, documents) ==
    /\ Begin(t, "score", "rr_enter",
             [EmptyLoc EXCEPT !.query = query, !.documents = documents])
    /\ UNCHANGED <<cfg, dbVars, vzVars, rrVars>>

\* CrossEncoderReranker.warm_up
RerankWarmUp(t) ==
    /\ Begin(t, "rerank_warm_up", "rr_enter", EmptyLoc)
    /\ UNCHANGED <<cfg, dbVars, vzVars, rrVars>>

\* score lines 39-42 and _ensure_model_loaded up to its first suspension
RerankEnter(t) ==
    /\ pc[t] = "rr_enter"
    /\ IF op[t] = "score" /\ loc[t].documents = <<>>
       THEN Finish(t, Ok(<<>>)) /\ UNCHANGED <<rr, rrStat>>
       ELSE IF rr.model
       THEN AfterRerankModel(t) /\ UNCHANGED <<rr, rrStat>>
       ELSE IF rr.lock = 0
       THEN /\ rrStat.started < MaxLoads
            /\ rr' = [rr EXCEPT !.lock = t]
            /\ rrStat' = [rrStat EXCEPT !.started = @ + 1]
            /\ Goto(t, "rr_load")
            /\ UNCHANGED res
       ELSE /\ rr' = [rr EXCEPT !.waiters = Append(@, t)]
            /\ Goto(t, "rr_wait")
            /\ UNCHANGED <<rrStat, res>>
    /\ UNCHANGED <<cfg, dbVars, vzVars, op, loc, calls>>

\* faulty variant of predict: empty documents get no score
predict_SkipEmpty(query, documents) ==
    LET kept == SelectSeq(documents, LAMBDA d : d # <<>>) IN
    [k \in 1..Len(kept) |-> CrossScore(query, kept[k])]

\* score lines 43-45: model.predict over the pairs (query, document)
predict(query, documents) ==
    [k \in 1..Len(documents) |-> CrossScore(query, documents[k])]

\* faulty variant of RerankLockGranted: a queued caller loads without
\* looking at self._model again once it holds the lock
RerankLockGranted_NoRecheck(t) ==
    /\ pc[t] = "rr_wait"
    /\ rr.lock = t
    /\ rrStat.started < MaxLoads
    /\ rrStat' = [rrStat EXCEPT !.started = @ + 1]
    /\ Goto(t, "rr_load")
    /\ UNCHANGED <<cfg, dbVars, vzVars, rr, op, loc, res, calls>>

\* the lock is handed to a queued caller: second check under the lock
RerankLockGranted(t) ==
    /\ pc[t] = "rr_wait"
    /\ rr.lock = t
    /\ IF rr.model
       THEN /\ rr' = Released(rr)
            /\ AfterRerankModel(t)
            /\ UNCHANGED rrStat
       ELSE /\ rrStat.started < MaxLoads
            /\ rrStat' = [rrStat EXCEPT !.started = @ + 1]
            /\ Goto(t, "rr_load")
            /\ UNCHANGED <<rr, res>>
    /\ UNCHANGED <<cfg, dbVars, vzVars, op, loc, calls>>

\* faulty variant of RerankLoadDone: a failed load is caught and the
\* candidates are returned with their retrieval scores
RerankLoadDone_Fallback(t, outcome) ==
    /\ pc[t] = "rr_load"
    /\ outcome = "timeout" => rerank_load_timeout(cfg) > 0
    /\ IF outcome = "ok"
       THEN /\ rr' = Released([rr EXCEPT !.model = TRUE])
            /\ AfterRerankModel(t)
            /\ UNCHANGED rrStat
       ELSE /\ rr' = Released(rr)
            /\ rrStat' = [rrStat EXCEPT !.failed = @ + 1]
            /\ Finish(t, Ok(Take(SortDesc(loc[t].cands, <<>>),
                                 IF loc[t].limit = 0 THEN cfg.search_limit ELSE loc[t].limit)))
    /\ UNCHANGED <<cfg, dbVars, vzVars, op, loc, calls>>

\* wait_for(to_thread(CrossEncoder)) when the timeout is positive, else the
\* bare await: returns, times out or raises; nothing is caught, "async with"
\* releases the lock
RerankLoadDone(t, outcome) ==
    /\ pc[t] = "rr_load"
    /\ outcome = "timeout" => rerank_load_timeout(cfg) > 0
    /\ IF outcome = "ok"
       THEN /\ rr' = Released([rr EXCEPT !.model = TRUE])
            /\ AfterRerankModel(t)
            /\ UNCHANGED rrStat
       ELSE /\ rr' = Released(rr)
            /\ rrStat' = [rrStat EXCEPT !.failed = @ + 1]
            /\ Finish(t, Raised(IF outcome = "timeout"
                                THEN Err("TimeoutError", "rerank_load_timeout", "none")
                                ELSE Err("Exception", "rerank_load_failed", "constructor")))
    /\ UNCHANGED <<cfg, dbVars, vzVars, op, loc, calls>>

\* faulty variant of RerankOutcome: the pool keeps its retrieval scores
RerankOutcome_KeepScores(c, user_query, limit, candidates, pool) ==
    Take(SortDesc(pool, <<>>), Min(IF limit = 0 THEN c.search_limit ELSE limit,
                                   Max(1, c.rerank_top_k)))

\* score lines 43-45 and _rerank lines 163-173, then search lines 103-104
RerankOutcome(c, user_query, limit, candidates, pool) ==
    LET query_for_rerank == Normalize(user_query)
        documents == build_documents(pool)
        scores == [k \in 1..Len(documents) |-> CrossScore(query_for_rerank, documents[k])]
        scored == Zip(pool, scores)
    IN IF scored = <<>>
       THEN truncate_sorted(candidates, RequestedLimit(c, limit))
       ELSE truncate_sorted(scored, RerankLimit(c, limit))

\* to_thread(model.predict) returned or raised
PredictDone(t, ok) ==
    /\ pc[t] = "rr_predict"
    /\ IF ok
       THEN IF op[t] = "score"
            THEN Finish(t, Ok(predict(loc[t].query, loc[t].documents)))
            ELSE Finish(t, Ok(sorted_by_score(
                RerankOutcome(cfg, loc[t].query, loc[t].limit, loc[t].cands, loc[t].pool))))
       ELSE Finish(t, Raised(Err("Exception", "predict_failed", "none")))
    /\ UNCHANGED <<cfg, dbVars, vzVars, rrVars, op, loc, calls>>

\* ---------------------------------------------------------- specifications
\* the Vectorizer's load, as one caller sees it
LoadStep(t) ==
    \/ \E ok \in BOOLEAN : MakedirsDone(t, ok)
    \/ \E outcome \in LoadOutcomes : DownloadDone(t, outcome)
    \/ \E outcome \in LoadOutcomes, instance \in ModelInstances : ConstructDone(t, outcome, instance)
    \/ ProgressDone(t)
    \/ \E ok \in BOOLEAN : EncodeDone(t, ok)

IndexStep(t) ==
    \/ ListMissing(t)
    \/ IndexNext(t)
    \/ IndexDone(t)
    \/ Upsert(t)

SearchStep(t) ==
    \/ BuildQuery(t)
    \/ SearchByVector(t)
    \/ FilterAndRerank(t)
    \/ \E outcome \in LoadOutcomes : RerankLoadDone(t, outcome)
    \/ \E ok \in BOOLEAN : PredictDone(t, ok)

\* (1) the Vectorizer alone, under concurrent embed_text / warm_up callers
LoadConfigs == {[DefaultCfg EXCEPT !.dimension = d] : d \in {0, Dim}}

InitLoad == \E c \in LoadConfigs : InitWith(c, {}, NoModel)

NextLoad ==
    \/ \E t \in Tasks :
        \/ WarmUp(t)
        \/ WarmUpEnter(t)
        \/ \E text \in Queries : EmbedText(t, text)
        \/ EmbedEnter(t)
        \/ LockGranted(t)
        \/ LoadStep(t)
        \/ Return(t)
    \/ OrphanFinish

SpecLoad == InitLoad /\ [][NextLoad]_vars

\* what the event loop and the worker threads owe a caller that is inside
\* embed_text/warm_up: a ready coroutine is resumed, the lock handed over is
\* taken, and each awaited step of the load (makedirs, download,
\* constructor or its timeout, progress task) and the encoding end
LoadProgress(t) ==
    \/ WarmUpEnter(t)
    \/ EmbedEnter(t)
    \/ LockGranted(t)
    \/ LoadStep(t)

\* a configured dimension, so that the dimension check can fail a load
InitLoadFair == InitWith([DefaultCfg EXCEPT !.dimension = Dim], {}, NoModel)

\* the load where no caller is starved and every awaited step ends
SpecLoadFair ==
    InitLoadFair /\ [][NextLoad]_vars /\ \A t \in Tasks : WF_vars(LoadProgress(t))

\* (2) the service handling one request at a time: search and the embedding
\* sync operations, over every configuration
Configs ==
    {[DefaultCfg EXCEPT !.search_metric = m, !.min_score_threshold = th,
                        !.enable_rerank = en, !.search_limit = k[1],
                        !.rerank_candidates = k[2], !.rerank_top_k = k[3]] :
        m \in {"cosine", "dot", "L2", "manhattan"}, th \in {0, 28}, en \in BOOLEAN,
        k \in {<<2, 1, 1>>, <<1, 1, 2>>, <<1, 3, 2>>, <<2, 3, 0>>}}
    \cup {[DefaultCfg EXCEPT !.dimension = 0]}

\* lists index_many is called with
ItemLists == {<<1, 4>>, <<3, 2, 2>>}

Init == \E c \in Configs : InitWith(c, Items, NoModel)

Next ==
    \/ \E t \in {1} :
        \/ \E q \in Queries, limit \in Limits : Search(t, q, limit)
        \/ IndexMissing(t)
        \/ VectorizeMissingAllowances(t)
        \/ \E i \in Items : IndexAllowance(t, i)
        \/ \E items \in ItemLists : IndexMany(t, items)
        \/ LoadStep(t)
        \/ IndexStep(t)
        \/ SearchStep(t)
        \/ Return(t)
    \/ OrphanFinish

Spec == Init /\ [][Next]_vars

\* (3) the running service: main.py's startup hook has warmed the Vectorizer
\* up before any request is served; requests run concurrently, and the
\* repository's upsert_embedding is also called directly
RepoConfigs == {[DefaultCfg EXCEPT !.enable_rerank = TRUE]}

RepoVectors == {<<5, 0>>, <<3, 4>>}

\* items written and indexed one by one: one with a document, one without
RepoItems == {1, 3}

RepoQueries == {<<" ", "b">>}

InitRepo == \E c \in RepoConfigs : InitWith(c, Items, [out |-> Dim, reports |-> TRUE])

NextRepo ==
    \E t \in {1, 2} :
        \/ \E i \in RepoItems, v \in RepoVectors, m \in ModelNames : UpsertEmbedding(t, i, v, m)
        \/ \E q \in RepoQueries : Search(t, q, 0)
        \/ IndexMissing(t)
        \/ \E i \in RepoItems : IndexAllowance(t, i)
        \/ \E items \in ItemLists : IndexMany(t, items)
        \/ \E ok \in BOOLEAN : EncodeDone(t, ok)
        \/ IndexStep(t)
        \/ SearchStep(t)
        \/ RerankLockGranted(t)
        \/ Return(t)

SpecRepo == InitRepo /\ [][NextRepo]_vars

\* --- the repository's search_by_vector called on its own, over records
\* --- that earlier upsert_embedding calls have left in the table
StoreItems == {1, 2, 3}

\* stored vectors: unit vectors and one of norm 2
StoreVectors == {<<5, 0>>, <<3, 4>>, <<-5, 0>>, <<10, 0>>}

StoreQueries == {<<5, 0>>, <<0, 5>>, <<10, 0>>}

StoreConfigs ==
    {[DefaultCfg EXCEPT !.search_metric = m] : m \in {"cosine", "dot", "L2", "manhattan"}}

\* the table after upsert_embedding has run for the items i..3 that f gives
\* a vector, in item order
RECURSIVE Populate(_, _, _)
Populate(f, i, rows) ==
    IF i \notin StoreItems THEN rows
    ELSE IF f[i] = <<>> THEN Populate(f, i + 1, rows)
    ELSE LET n == Cardinality(rows) + 1 IN
         Populate(f, i + 1, upsert_embedding(rows, i, f[i], "e5-base", n, n))

\* search_by_vector(embedding, limit, metric=settings.vector.search_metric)
CallSearchByVector(t, embedding, limit) ==
    /\ Begin(t, "search_by_vector", "sbv",
             [EmptyLoc EXCEPT !.vector = embedding, !.limit = limit])
    /\ UNCHANGED <<cfg, dbVars, vzVars, rrVars>>

InitStore ==
    \E c \in StoreConfigs, f \in [StoreItems -> StoreVectors \cup {<<>>}] :
        LET rows == Populate(f, 1, {}) IN
        /\ cfg = c
        /\ catalog = StoreItems
        /\ store = rows
        /\ nextId = Cardinality(rows) + 1
        /\ clock = Cardinality(rows)
        /\ issued = {<<r.allowance_id, r.embedding, r.embedding_model>> : r \in rows}
        /\ vz = [model |-> NoModel, dimension |-> c.dimension, lock |-> 0, waiters |-> <<>>]
        /\ vzStat = [started |-> 0, failed |-> 0, threads |-> 0]
        /\ rr = [model |-> FALSE, lock |-> 0, waiters |-> <<>>]
        /\ rrStat = [started |-> 0, failed |-> 0]
        /\ pc = [t \in Tasks |-> "idle"]
        /\ op = [t \in Tasks |-> "none"]
        /\ loc = [t \in Tasks |-> EmptyLoc]
        /\ res = [t \in Tasks |-> NoResult]
        /\ calls = 0

NextStore ==
    \E t \in {1} :
        \/ \E q \in StoreQueries, limit \in Limits \ {0} : CallSearchByVector(t, q, limit)
        \/ SearchByVector(t)
        \/ Return(t)

SpecStore == InitStore /\ [][NextStore]_vars

\* --- the Reranker on its own: concurrent score and warm_up callers
RerankConfigs ==
    {[DefaultCfg EXCEPT !.enable_rerank = TRUE, !.load_timeout_seconds = s] : s \in {300, 0}}

RerankQueries == {<<"a">>, <<"b", " ", "a">>}

\* document lists: none, one, two with an empty document, the same reversed
RerankDocuments ==
    {<<>>, << <<"a">> >>, << <<"b">>, <<>>, <<"a">> >>, << <<"a">>, <<>>, <<"b">> >>}

InitRerank == \E c \in RerankConfigs : InitWith(c, {}, NoModel)

NextRerank ==
    \E t \in Tasks :
        \/ \E q \in RerankQueries, d \in RerankDocuments : RerankScore(t, q, d)
        \/ RerankWarmUp(t)
        \/ RerankEnter(t)
        \/ RerankLockGranted(t)
        \/ \E outcome \in LoadOutcomes : RerankLoadDone(t, outcome)
        \/ \E ok \in BOOLEAN : PredictDone(t, ok)
        \/ Return(t)

SpecRerank == InitRerank /\ [][NextRerank]_vars

\* --- vectorize_allowances, one request after the other; id 5 is no
\* --- catalog row, item 3 has an empty document
IdLists == {<<>>, <<5>>, <<1, 4>>, <<4, 3, 5, 1>>, <<2, 4, 1, 2>>}

InitVectorize == InitWith(DefaultCfg, Items, NoModel)

NextVectorize ==
    \/ \E t \in {1} :
        \/ \E ids \in IdLists : VectorizeAllowances(t, ids)
        \/ VectorizeEnter(t)
        \/ VectorizeListed(t)
        \/ IndexNext(t)
        \/ IndexDone(t)
        \/ Upsert(t)
        \/ LoadStep(t)
        \/ Return(t)
    \/ OrphanFinish

SpecVectorize == InitVectorize /\ [][NextVectorize]_vars

\* --- the Vectorizer the factory returns for either backend setting
FallbackConfigs == {[DefaultCfg EXCEPT !.backend = b] : b \in {"e5", "hash"}}

\* Vectorizer.warm_up and Vectorizer.embed_text of the instance the factory
\* returned
VectorizerWarmUpEnter(t) ==
    IF create_vectorizer(cfg.backend) = "hash" THEN HashWarmUpEnter(t) ELSE WarmUpEnter(t)

VectorizerEmbedEnter(t) ==
    IF create_vectorizer(cfg.backend) = "hash" THEN HashEmbedEnter(t) ELSE EmbedEnter(t)

InitFallback == \E c \in FallbackConfigs : InitWith(c, {}, NoModel)

NextFallback ==
    \/ \E t \in Tasks :
        \/ WarmUp(t)
        \/ \E text \in Queries : EmbedText(t, text)
        \/ VectorizerWarmUpEnter(t)
        \/ VectorizerEmbedEnter(t)
        \/ LockGranted(t)
        \/ LoadStep(t)
        \/ Return(t)
    \/ OrphanFinish

SpecFallback == InitFallback /\ [][NextFallback]_vars

\* --- search with reranking over a small catalog: allowance 1 has a
\* --- document, allowance 3 has none; records are also written by calling
\* --- upsert_embedding directly
PoolItems == {1, 3}

InitPool == \E c \in RepoConfigs : InitWith(c, PoolItems, [out |-> Dim, reports |-> TRUE])

NextPool ==
    \E t \in {1} :
        \/ \E i \in PoolItems, v \in RepoVectors : UpsertEmbedding(t, i, v, cfg.model_name)
        \/ \E q \in Queries, limit \in Limits : Search(t, q, limit)
        \/ ListMissing(t)
        \/ IndexNext(t)
        \/ \E ok \in BOOLEAN : EncodeDone(t, ok)
        \/ Upsert(t)
        \/ SearchStep(t)
        \/ Return(t)

SpecPool == InitPool /\ [][NextPool]_vars

\* ======================================================= properties
\* ---------------------------------------------- Vectorizer loading (SpecLoad)
Ready == vz.model # NoModel
InLoad(t) == pc[t] \in {"ld_mkdirs", "ld_download", "ld_construct", "ld_finally"}
TimeoutError(e) == e.what = "load_timeout" \/ e.cause = "download_timeout"

\* C1: however many callers obtain the Vectorizer's model concurrently, at
\* most one load is in progress at any time, no load is in progress or
\* started once the Vectorizer is Ready, and when no load has failed the
\* model is loaded and constructed at most once, exactly once when Ready.
C1_SingleFlightLoad ==
    /\ Cardinality({t \in Tasks : InLoad(t)}) <= 1
    /\ \A t \in Tasks : InLoad(t) => vz.lock = t
    /\ Ready => \A t \in Tasks : ~InLoad(t)
    /\ vzStat.failed = 0 => vzStat.started <= 1 /\ vzStat.threads <= 1
    /\ Ready /\ vzStat.failed = 0 => vzStat.started = 1

\* a caller that queued for the lock during the one load holds the lock
\* with the model already installed
C1_Witness ==
    /\ Ready
    /\ vzStat.started = 1
    /\ \E t \in Tasks : pc[t] = "ld_wait" /\ vz.lock = t

\* C2: when the load timeout elapses the call ends with a timeout error,
\* and in the state that call leaves behind the Vectorizer is Unloaded and
\* the load lock is no longer held by the failed call, so a later call
\* finds no model and starts a fresh load.
C2_TimeoutLeavesUnloaded ==
    [][\A t \in Tasks :
          /\ (pc[t] = "ld_finally" /\ loc[t].pend.what = "load_timeout" /\ pc'[t] # pc[t])
                => (pc'[t] = "done" /\ res'[t].status = "error" /\ TimeoutError(res'[t].error))
          /\ (res[t].status = "none" /\ res'[t].status = "error" /\ TimeoutError(res'[t].error))
                => /\ pc'[t] = "done"
                   /\ vz'.model = NoModel
                   /\ vz'.lock # t
                   /\ \A k \in 1..Len(vz'.waiters) : vz'.waiters[k] # t
                   /\ vzStat'.failed = vzStat.failed + 1
                   /\ vzStat'.started = vzStat.started]_vars

\* one call has ended with the timeout error and a later load has made the
\* Vectorizer Ready
C2_Witness ==
    /\ Ready
    /\ vzStat.started = 2
    /\ \E t \in Tasks : pc[t] = "done" /\ res[t].status = "error" /\ TimeoutError(res[t].error)

\* ------------------------------------------------ the store (SpecRepo)
\* C3: under concurrent upserts the store holds at most one record per
\* item, row ids are not shared, and every record carries the vector and
\* the model identifier of one single upsert call, never the vector of one
\* call with the model identifier of another.
C3_OneRecordOfOneCall ==
    /\ \A i \in Items : Cardinality(RowsOf(store, i)) <= 1
    /\ \A r, q \in store : r.id = q.id => r = q
    /\ \A r \in store : <<r.allowance_id, r.embedding, r.embedding_model>> \in issued

\* two calls for the same item with different vectors and different model
\* identifiers have both run, and the item has its record
C3_Witness ==
    \E t, u \in Tasks :
        /\ t # u
        /\ pc[t] = "done" /\ op[t] = "upsert_embedding"
        /\ pc[u] = "done" /\ op[u] = "upsert_embedding"
        /\ loc[t].item = loc[u].item
        /\ loc[t].vector # loc[u].vector
        /\ loc[t].model_name # loc[u].model_name
        /\ HasRow(store, loc[t].item)

\* C4 (as the specification states it): an upsert for an item that already
\* has a record leaves exactly one record for that item, carrying the
\* vector, the model identifier and the timestamp of this second call.
C4_SecondUpsertRefreshesAll ==
    [][\A t \in Tasks :
          (pc[t] = "upsert" /\ pc'[t] # "upsert" /\ HasRow(store, loc[t].item))
             => \E r \in store' :
                  /\ RowsOf(store', loc[t].item) = {r}
                  /\ r.embedding = loc[t].vector
                  /\ r.embedding_model = loc[t].model_name
                  /\ r.created_at = clock']_vars

\* a second upsert_embedding call for an item has returned its row: the row
\* has the vector and the model identifier of this call and the created_at
\* of the first one
C4_Witness ==
    \E t \in Tasks :
        /\ pc[t] = "done" /\ op[t] = "upsert_embedding" /\ res[t].status = "ok"
        /\ res[t].value[1].embedding = loc[t].vector
        /\ res[t].value[1].embedding_model = loc[t].model_name
        /\ res[t].value[1].created_at < loc[t].at

\* C9: when search issues the store's similarity query its index_missing
\* has gone through its whole list, and every item that lacked an embedding
\* when the search began and has a non-empty document has a record.
C9_BackfillBeforeRetrieval ==
    \A t \in Tasks :
        (op[t] = "search" /\ pc[t] \in {"sbv", "filter"})
            => /\ loc[t].pending = <<>>
               /\ \A i \in loc[t].lacked : ItemDocument(i) # <<>> => HasRow(store, i)

\* a search that began with items 1, 2 and 4 lacking embeddings, and item 3
\* with an empty document, stands at its similarity query
C9_Witness ==
    \E t \in Tasks :
        /\ op[t] = "search" /\ pc[t] = "sbv"
        /\ loc[t].lacked = {1, 2, 3, 4}
        /\ ~HasRow(store, 3)

\* ------------------------------------------------------ search (Spec)
SearchDone(t) == op[t] = "search" /\ pc[t] = "done" /\ res[t].status = "ok"
Blank(query) == Normalize(query) = <<>>
Requested(t) == IF loc[t].limit = 0 THEN cfg.search_limit ELSE loc[t].limit
SortedDesc(R) == \A j \in 1..(Len(R) - 1) : R[j].score >= R[j + 1].score
DistinctItems(R) == \A j, k \in 1..Len(R) : j # k => R[j].item # R[k].item
BackfillErrors == {"preflight", "download_failed", "load_timeout", "load_failed",
                   "dimension_mismatch", "encode_failed", "embedding_size"}

\* C5 (as the specification states it): a search whose query is empty or
\* only whitespace ends with an empty result list and never with an error,
\* in every state of the store and of the Vectorizer.
C5_BlankQueryNeverFails ==
    \A t \in Tasks :
        (op[t] = "search" /\ Blank(loc[t].query) /\ pc[t] = "done") => res[t] = Ok(<<>>)

\* C5 (amended): a search whose query is empty or only whitespace never
\* embeds the query, never queries the store for neighbours and never
\* reranks; it ends with an empty result list once its index_missing
\* backfill has completed, and the only error it can end with is one raised
\* while that backfill indexes an item.
C5_BlankQueryEmptyAfterBackfill ==
    \A t \in Tasks :
        (op[t] = "search" /\ Blank(loc[t].query))
            => /\ loc[t].phase # "query"
               /\ pc[t] \notin {"sbv", "filter", "rr_wait", "rr_load", "rr_predict"}
               /\ pc[t] = "done"
                    => \/ res[t] = Ok(<<>>)
                       \/ /\ res[t].status = "error"
                          /\ loc[t].phase = "index"
                          /\ res[t].error.what \in BackfillErrors

\* a whitespace-only query has been answered with the empty list after the
\* backfill gave every item with a document its record
C5_Witness ==
    \E t \in Tasks :
        /\ op[t] = "search" /\ loc[t].query = <<" ">> /\ pc[t] = "done"
        /\ res[t] = Ok(<<>>)
        /\ loc[t].lacked # {}
        /\ \A i \in {1, 2, 4} : HasRow(store, i)

\* the bounds of claim C6 for one finished search, top_k being the number
\* the reranked list is cut to
ResultShape(t, top_k) ==
    LET R == res[t].value IN
    /\ SortedDesc(R)
    /\ DistinctItems(R)
    /\ Len(R) <= Requested(t)
    /\ loc[t].pool # <<>> => Len(R) <= Min(Requested(t), top_k)

\* C6 (as the specification states it): the list search returns is sorted
\* by score descending, has no item id twice and at most requested_limit
\* entries, at most min(requested_limit, rerank_top_k) when reranked.
C6_ResultBounded ==
    \A t \in Tasks : SearchDone(t) => ResultShape(t, cfg.rerank_top_k)

\* C6 (amended): the same, the bound after reranking being
\* min(requested_limit, max(1, rerank_top_k)): a configured top-k below 1
\* counts as 1.
C6_ResultBoundedFloorOne ==
    \A t \in Tasks : SearchDone(t) => ResultShape(t, Max(1, cfg.rerank_top_k))

\* a search without reranking has returned its requested two of three candidates
C6_Witness ==
    \E t \in Tasks :
        /\ SearchDone(t)
        /\ Len(loc[t].cands) = 3
        /\ loc[t].pool = <<>>
        /\ Len(res[t].value) = 2
        /\ res[t].value[1].score > res[t].value[2].score

\* C7: with reranking disabled and threshold th, search returns exactly the
\* retrieved candidates scoring >= th (all of them when th <= 0), sorted by
\* score descending and cut to requested_limit: as many as the limit
\* allows, each a retrieved candidate that passes, none passing one left
\* out in favour of a lower score.
C7_ThresholdFilter ==
    \A t \in Tasks :
        (SearchDone(t) /\ ~cfg.enable_rerank /\ loc[t].phase = "query") =>
            LET R  == res[t].value
                M  == loc[t].matches
                th == cfg.min_score_threshold
                kept == {k \in 1..Len(M) : th <= 0 \/ M[k].score >= th}
            IN /\ Len(R) = Min(Requested(t), Cardinality(kept))
               /\ SortedDesc(R)
               /\ DistinctItems(R)
               /\ \A j \in 1..Len(R) : \E k \in kept : R[j] = M[k]
               /\ \A k \in kept :
                     (\A j \in 1..Len(R) : R[j] # M[k]) => M[k].score <= R[Len(R)].score

\* with a positive threshold, three candidates were retrieved, one scored
\* below the threshold and one exactly the threshold: two are returned
C7_Witness ==
    \E t \in Tasks :
        /\ SearchDone(t) /\ ~cfg.enable_rerank
        /\ cfg.min_score_threshold > 0
        /\ Len(loc[t].matches) = 3
        /\ Len(res[t].value) = 2
        /\ res[t].value[2].score = cfg.min_score_threshold

\* what claim C8 says of one finished search with reranking enabled and a
\* non-empty filtered pool, top_k being the number the list is cut to
RerankedShape(t, top_k) ==
    LET R == res[t].value
        P == loc[t].pool
        Score(i) == CrossScore(Normalize(loc[t].query), ItemDocument(i))
    IN /\ P # <<>>
       /\ \A j \in 1..Len(R) :
             /\ \E k \in 1..Len(P) : P[k].item = R[j].item
             /\ R[j].score = Score(R[j].item)
       /\ SortedDesc(R)
       /\ DistinctItems(R)
       /\ Len(R) = Min(Min(Requested(t), top_k), Len(loc[t].cands))
       /\ \A k \in 1..Len(P) :
             (\A j \in 1..Len(R) : R[j].item # P[k].item)
                => \A j \in 1..Len(R) : Score(P[k].item) <= R[j].score

LoadFailures == {"preflight", "download_failed", "load_timeout", "load_failed",
                 "dimension_mismatch", "rerank_load_timeout", "rerank_load_failed"}

\* C10: when a load of the Vectorizer or of the Reranker fails inside
\* search, that step ends the search with the load's error: no result list
\* is returned, no further load is started in its place, and nothing
\* catches the error on the way.
C10_LoadFailurePropagates ==
    [][\A t \in Tasks :
          (/\ op[t] = "search"
           /\ \/ InLoad(t) /\ vzStat'.failed > vzStat.failed
              \/ pc[t] = "rr_load" /\ rrStat'.failed > rrStat.failed)
             => /\ pc'[t] = "done"
                /\ res'[t].status = "error"
                /\ res'[t].value = <<>>
                /\ res'[t].error.what \in LoadFailures
                /\ vzStat'.started = vzStat.started
                /\ rrStat'.started = rrStat.started]_vars

\* a search whose retrieval found candidates has ended with the error of
\* the Reranker's failed load
C10_Witness ==
    \E t \in Tasks :
        /\ op[t] = "search" /\ pc[t] = "done"
        /\ res[t].status = "error"
        /\ res[t].error.what \in {"rerank_load_timeout", "rerank_load_failed"}
        /\ loc[t].cands # <<>>
        /\ rrStat.failed >= 1

\* ------------------------------------------- embedding sync (Spec, SpecRepo)
\* C11 (as the specification states it): in index_many a failure while
\* indexing one item is isolated to that item, index_allowance is still
\* applied to every later item: when index_many ends, no item of its list
\* with a non-empty document is left unprocessed.
C11_FailureIsolated ==
    \A t \in Tasks :
        (op[t] = "index_many" /\ pc[t] = "done") => SkipBlank(loc[t].pending) = <<>>

\* index_many([1, 4]) has ended with the error of item 1; item 4 was never
\* handed to index_allowance and has no record
C11_Witness ==
    \E t \in Tasks :
        /\ op[t] = "index_many" /\ pc[t] = "done" /\ res[t].status = "error"
        /\ loc[t].item = 1
        /\ loc[t].pending = <<4>>
        /\ ~HasRow(store, 4)

\* C12 (as the specification states it): index_missing returns the number
\* of embedding records it newly created in this call, and
\* vectorize_missing_allowances returns that number when it is positive
\* (and raises EmbeddingNotFoundError, returning nothing, when it is 0).
C12_ReturnsCreatedCount ==
    \A t \in Tasks :
        (pc[t] = "done" /\ res[t].status = "ok") =>
            /\ op[t] = "index_missing" => res[t].value = <<loc[t].created>>
            /\ op[t] = "vectorize_missing_allowances"
                  => loc[t].created > 0 /\ res[t].value = <<loc[t].created>>

\* vectorize_missing_allowances has returned None, without an error, from a
\* run that created no record, every item with a document having one already
C12_Witness ==
    \E t \in Tasks :
        /\ op[t] = "vectorize_missing_allowances" /\ pc[t] = "done"
        /\ res[t] = Ok(NoneValue)
        /\ loc[t].created = 0
        /\ \A i \in {1, 2, 4} : HasRow(store, i)

\* the run of index_missing inside task t's operation is handling an item
Indexing(t) ==
    /\ op[t] \in {"index_missing", "vectorize_missing_allowances", "search"}
    /\ loc[t].phase = "index"
    /\ pc[t] \in {"ld_wait", "ld_mkdirs", "ld_download", "ld_construct", "ld_finally",
                  "encode", "upsert"}

\* C13: index_missing never embeds or upserts an item that had a record
\* when the run listed the missing items, and never lists such an item; a
\* run on a catalog whose items with a document all have records creates
\* no record.
C13_NoReindex ==
    \A t \in Tasks :
        /\ Indexing(t) => loc[t].item \notin loc[t].had
        /\ op[t] \in {"index_missing", "vectorize_missing_allowances", "search"}
              => /\ \A k \in 1..Len(loc[t].pending) : loc[t].pending[k] \notin loc[t].had
                 /\ {i \in catalog : ItemDocument(i) # <<>>} \subseteq loc[t].had
                       => loc[t].created = 0 /\ ~Indexing(t)

\* a second index_missing, run when items 1, 2 and 4 had their records, has
\* ended without creating a record
C13_Witness ==
    \E t \in Tasks :
        /\ op[t] = "index_missing" /\ pc[t] = "done"
        /\ loc[t].had = {1, 2, 4}
        /\ loc[t].created = 0
        /\ clock = MaxClock

\* C14: every step of index_allowance leaves the embedding store unchanged
\* except its upsert, which leaves exactly one record for the item, with
\* the vector just computed and the model identifier, and touches no other
\* record; for an item with an empty document it returns without error,
\* without touching the Vectorizer or the store; a step that ends it with an
\* error leaves the store, hence the item's previous record, as it was.
C14_WholeRecordOrNothing ==
    [][\A t \in Tasks :
          (op[t] = "index_allowance" /\ pc'[t] # pc[t]) =>
             /\ (/\ pc[t] = "resume"
                 /\ loc[t].pending # <<>>
                 /\ ItemDocument(Head(loc[t].pending)) = <<>>)
                   => /\ pc'[t] = "done" /\ res'[t] = Ok(NoneValue)
                      /\ store' = store /\ vz' = vz /\ vzStat' = vzStat
             /\ pc[t] # "upsert" => store' = store
             /\ res'[t].status = "error" => store' = store
             /\ pc[t] = "upsert"
                   => \E r \in store' :
                        /\ RowsOf(store', loc[t].item) = {r}
                        /\ r.embedding = loc[t].vector
                        /\ r.embedding_model = cfg.model_name
                        /\ Len(r.embedding) = vz.dimension
                        /\ store' \ {r} = store \ RowsOf(store, loc[t].item)]_vars

\* index_allowance for an item that has a record has ended with an error of
\* the embedding; the record is there
C14_Witness ==
    \E t \in Tasks :
        /\ op[t] = "index_allowance" /\ pc[t] = "done" /\ res[t].status = "error"
        /\ loc[t].phase = "index"
        /\ \E r \in store : r.allowance_id = loc[t].item /\ r.created_at = 1

\* ------------------------------------------------- dimensions (SpecLoad, Spec)
\* C15 (as the specification states it): whenever the Vectorizer is Ready
\* its dimension is the dimension of the loaded model: a model of another
\* dimension is never installed beside a positive configured dimension, and
\* a non-positive configured dimension has been replaced by the model's.
C15_DimensionIsTheModels ==
    Ready => vz.dimension = vz.model.out

\* C15 (amended): whenever the Vectorizer is Ready with a model that reports
\* its dimension, the Vectorizer's dimension equals the reported one: a
\* positive configured dimension that differs makes the load fail without
\* installing the model, a non-positive one is replaced by the reported
\* one.  A model that reports no dimension is installed unchecked and the
\* configured dimension, positive or not, is kept; so is it while Unloaded.
C15_DimensionIsTheReportedOne ==
    /\ (Ready /\ vz.model.reports)
          => /\ vz.dimension = vz.model.out
             /\ cfg.dimension > 0 => cfg.dimension = vz.model.out
    /\ (Ready /\ ~vz.model.reports) => vz.dimension = cfg.dimension
    /\ ~Ready => vz.dimension = cfg.dimension
    /\ \A t \in Tasks : res[t].error.what = "dimension_mismatch"
          => cfg.dimension > 0 /\ pc[t] = "done"

\* a load has failed on the dimension mismatch and the model is not installed
C15_Witness ==
    /\ ~Ready
    /\ vzStat.started = 1
    /\ \E t \in Tasks : pc[t] = "done" /\ res[t].error.what = "dimension_mismatch"

\* C16: every vector embed_text hands to index_allowance or to search, and
\* every vector of an embedding record, has the length of the Vectorizer's
\* dimension; a call whose encoded vector has another length ends with the
\* size error and has passed on no vector.
C16_VectorLength ==
    /\ \A r \in store : Len(r.embedding) = vz.dimension
    /\ \A t \in Tasks :
          /\ loc[t].vector # <<>> => Len(loc[t].vector) = vz.dimension
          /\ res[t].error.what = "embedding_size"
                => /\ loc[t].vector = <<>>
                   /\ Len(Encode(vz.model, loc[t].text)) # vz.dimension

\* the loaded model encodes to another length than the Vectorizer's
\* dimension: the operation has ended with the size error, nothing is stored
C16_Witness ==
    \E t \in Tasks :
        /\ pc[t] = "done" /\ res[t].error.what = "embedding_size"
        /\ loc[t].phase = "index"
        /\ Len(Encode(vz.model, loc[t].text)) = OtherDim
        /\ store = {}

\* C17: embed_text called with empty or whitespace-only text ends at once
\* with the empty vector; it leaves the model, the dimension, the load lock
\* and its queue as they were, starts no load and no loading thread, and
\* never reaches the encode step.
C17_BlankTextNoModel ==
    [][\A t \in Tasks :
          (/\ op[t] = "embed_text" /\ pc[t] = "resume"
           /\ Strip(loc[t].text) = <<>>
           /\ pc'[t] # pc[t])
             => /\ pc'[t] = "done"
                /\ res'[t] = Ok(<<>>)
                /\ vz' = vz
                /\ vzStat' = vzStat]_vars

\* embed_text of a whitespace-only text has returned the empty vector on a
\* Vectorizer that is still Unloaded and has started no load
C17_Witness ==
    \E t \in Tasks :
        /\ op[t] = "embed_text" /\ pc[t] = "done"
        /\ loc[t].text = <<" ">>
        /\ res[t] = Ok(<<>>)
        /\ ~Ready
        /\ vzStat.started = 0
        /\ vz.lock = 0

\* ------------------------------------------------- the metric (Spec)
\* the configured metric name is none of the supported names or aliases
UnsupportedMetric ==
    Lower(cfg.search_metric) \notin {"cosine", "cos", "dot", "inner_product", "l2", "euclidean"}

\* C18 (as the specification states it): a search run under a metric name
\* outside the supported set never returns a result list.
C18_UnsupportedMetricNeverReturns ==
    \A t \in Tasks :
        (op[t] = "search" /\ UnsupportedMetric /\ pc[t] = "done")
            => res[t].status = "error"

\* C18 (amended): under a metric name outside the supported set
\* search_by_vector fails with the unsupported-metric error whatever the
\* query vector and the limit are, reading no row and using no default
\* metric; a search with a non-blank query therefore ends with an error and
\* never reaches the score filter, while a search with a blank query never
\* calls search_by_vector and returns the empty list.
C18_UnsupportedMetricFails ==
    [][\A t \in Tasks :
          UnsupportedMetric
             => /\ (pc[t] = "sbv" /\ pc'[t] # pc[t])
                     => /\ pc'[t] = "done"
                        /\ res'[t] = Raised(Err("ValueError", "unsupported_metric", "none"))
                        /\ loc'[t].matches = <<>>
                /\ pc'[t] # "filter"
                /\ (op[t] = "search" /\ pc[t] # "done" /\ pc'[t] = "done")
                     => IF Blank(loc[t].query)
                        THEN res'[t].status = "ok" => res'[t] = Ok(<<>>)
                        ELSE res'[t].status = "error"]_vars

\* a search with a non-blank query over a store holding records has ended
\* with the unsupported-metric error
C18_Witness ==
    \E t \in Tasks :
        /\ op[t] = "search" /\ pc[t] = "done"
        /\ ~Blank(loc[t].query)
        /\ UnsupportedMetric
        /\ res[t] = Raised(Err("ValueError", "unsupported_metric", "none"))
        /\ store # {}

\* ------------------------------------- search_by_vector (SpecStore)
\* a search_by_vector call that has returned its list
StoreSearchDone(t) == op[t] = "search_by_vector" /\ pc[t] = "done" /\ res[t].status = "ok"

\* the stored vector of an item that has a record
StoredVector(i) == (CHOOSE r \in store : r.allowance_id = i).embedding

\* C19: every score search_by_vector returns is the raw value of the store
\* for that record converted as: cosine 1 - distance, dot the raw value
\* itself, L2 1 / (1 + distance), each clamped to [-1, 1]; every score lies
\* in [-1, 1] and every L2 score in (0, 1].
C19_ScoreConversion ==
    \A t \in Tasks :
        StoreSearchDone(t) =>
            \A k \in 1..Len(res[t].value) :
                LET m      == res[t].value[k]
                    stored == StoredVector(m.item)
                    query  == loc[t].vector
                    branch == MetricBranch(cfg.search_metric)
                IN /\ HasRow(store, m.item)
                   /\ -Scale <= m.score /\ m.score <= Scale
                   /\ branch = "cosine" =>
                        m.score = Max(-Scale, Min(Scale, Scale - cosine_distance(stored, query)))
                   /\ branch = "dot" =>
                        m.score = Max(-Scale, Min(Scale, max_inner_product(stored, query)))
                   /\ branch = "l2" =>
                        /\ m.score = Max(-Scale, Min(Scale,
                                         (Scale * Scale) \div (Scale + l2_distance(stored, query))))
                        /\ 0 < m.score

\* an L2 search has returned a record at distance 3 with the score 1/4, and
\* a dot search has returned a raw value of -2 clamped to -1
C19_Witness ==
    \E t \in Tasks :
        /\ StoreSearchDone(t)
        /\ \E k \in 1..Len(res[t].value) :
              LET m == res[t].value[k] IN
              \/ /\ MetricBranch(cfg.search_metric) = "l2"
                 /\ l2_distance(StoredVector(m.item), loc[t].vector) = 3 * Scale
                 /\ m.score = Scale \div 4
              \/ /\ MetricBranch(cfg.search_metric) = "dot"
                 /\ max_inner_product(StoredVector(m.item), loc[t].vector) = -2 * Scale
                 /\ m.score = -Scale

\* the relevance of a stored vector for a query under a metric: the cosine
\* similarity, the inner product, or the negated Euclidean distance
Relevance(branch, stored, query) ==
    CASE branch = "cosine" -> (Scale * Dot(stored, query)) \div (Norm(stored) * Norm(query))
      [] branch = "dot"    -> 4 * Dot(stored, query)
      [] OTHER             -> -l2_distance(stored, query)

\* C20 (as the specification states it): for each supported metric
\* search_by_vector returns at most limit candidates, no stored item left
\* out is more relevant than a returned one, the list is ordered by
\* decreasing score, and for dot the score is the inner product with the
\* query (within [-1, 1]).
C20_MostRelevantFirst ==
    \A t \in Tasks :
        StoreSearchDone(t) =>
            LET R      == res[t].value
                query  == loc[t].vector
                branch == MetricBranch(cfg.search_metric)
                found  == {R[k].item : k \in 1..Len(R)}
                Rel(i) == Relevance(branch, StoredVector(i), query)
            IN /\ Len(R) <= loc[t].limit
               /\ \A k \in 1..(Len(R) - 1) : R[k].score >= R[k + 1].score
               /\ \A r \in store :
                     r.allowance_id \notin found
                        => /\ Len(R) = loc[t].limit
                           /\ \A i \in found : Rel(i) >= Rel(r.allowance_id)
               /\ branch = "dot" =>
                     \A k \in 1..Len(R) :
                         R[k].score = Max(-Scale, Min(Scale, Rel(R[k].item)))

\* a dot search with limit 1 over the stored vectors [1, 0] and [-1, 0] and
\* the query [1, 0] has returned the record of [-1, 0] with the score 1
C20_Witness ==
    \E t \in Tasks :
        /\ StoreSearchDone(t)
        /\ MetricBranch(cfg.search_metric) = "dot"
        /\ loc[t].vector = <<5, 0>> /\ loc[t].limit = 1
        /\ \E r \in store : r.embedding = <<5, 0>>
        /\ Len(res[t].value) = 1
        /\ StoredVector(res[t].value[1].item) = <<-5, 0>>
        /\ res[t].value[1].score = Scale

InRerankLoad(t) == pc[t] = "rr_load"

\* C22 (as the specification states it): under concurrent score and warm_up
\* callers at most one load of the Reranker's model runs at a time, none
\* runs or starts once it is Ready, the model is loaded exactly once when
\* no load failed, and every load in progress is bounded by a timeout.
C22_RerankLoadDiscipline ==
    /\ Cardinality({t \in Tasks : InRerankLoad(t)}) <= 1
    /\ \A t \in Tasks : InRerankLoad(t) => rr.lock = t
    /\ rr.model => \A t \in Tasks : ~InRerankLoad(t)
    /\ rrStat.failed = 0 => rrStat.started <= 1
    /\ rr.model /\ rrStat.failed = 0 => rrStat.started = 1
    /\ \A t \in Tasks : InRerankLoad(t) => rerank_load_timeout(cfg) > 0

\* with a configured timeout of 0 one caller is inside the load, which no
\* timeout bounds, and another caller is queued on the lock behind it
C22_Witness ==
    \E t, u \in Tasks :
        /\ InRerankLoad(t)
        /\ rerank_load_timeout(cfg) = 0
        /\ pc[u] = "rr_wait"
        /\ rr.waiters = <<u>>

\* ------------------------------- vectorize_allowances (SpecVectorize)
\* a vectorize_allowances call that has ended while indexing an item
VectorizeFailed(t) ==
    /\ op[t] = "vectorize_allowances" /\ pc[t] = "done"
    /\ res[t].status = "error" /\ loc[t].phase = "index"

\* the allowances of the batch that came before the item being indexed
EarlierItems(t) ==
    {loc[t].allowances[k] : k \in 1..Len(loc[t].allowances)}
        \ ({loc[t].item} \cup {loc[t].pending[k] : k \in 1..Len(loc[t].pending)})

\* C23: when indexing one item of a vectorize_allowances batch fails, the
\* call ends with an EmbeddingProcessingError naming that item's id; no
\* record has been written for that item or for any later item of the
\* batch, and every earlier item with a document has its record.
C23_FailFast ==
    \A t \in Tasks :
        VectorizeFailed(t) =>
            /\ res[t].error.type = "EmbeddingProcessingError"
            /\ res[t].error.id = loc[t].item
            /\ \A i \in {loc[t].item} \cup {loc[t].pending[k] : k \in 1..Len(loc[t].pending)} :
                  i \notin loc[t].had => ~HasRow(store, i)
            /\ \A i \in EarlierItems(t) : ItemDocument(i) # <<>> => HasRow(store, i)

\* the batch 1, 2, 4 has failed at item 2: the error names 2, item 1 got
\* its record in this call and item 4 is left without one
C23_Witness ==
    \E t \in Tasks :
        /\ VectorizeFailed(t)
        /\ loc[t].allowances = <<1, 2, 4>>
        /\ loc[t].had = {}
        /\ res[t].error.id = 2
        /\ HasRow(store, 1) /\ ~HasRow(store, 2) /\ ~HasRow(store, 4)
        /\ loc[t].pending = <<4>>

\* C25 (as the specification states it): when vectorize_allowances returns,
\* every id in processed_ids has an embedding record, and missing_ids is
\* exactly the requested ids that are no catalog item.
C25_ProcessedHaveRecords ==
    \A t \in Tasks :
        (op[t] = "vectorize_allowances" /\ pc[t] = "done" /\ res[t].status = "ok")
            => LET report == res[t].value[1] IN
               /\ \A k \in 1..Len(report.processed_ids) :
                     HasRow(store, report.processed_ids[k])
               /\ report.missing_ids = SelectSeq(loc[t].ids, LAMBDA id : id \notin catalog)

\* vectorize_allowances([4, 3, 5, 1]) has returned: item 3, whose document
\* is empty, is reported as processed and has no record; 5 is reported missing
C25_Witness ==
    \E t \in Tasks :
        /\ op[t] = "vectorize_allowances" /\ pc[t] = "done" /\ res[t].status = "ok"
        /\ loc[t].ids = <<4, 3, 5, 1>>
        /\ res[t].value[1].processed_ids = <<1, 3, 4>>
        /\ res[t].value[1].missing_ids = <<5>>
        /\ HasRow(store, 1) /\ HasRow(store, 4) /\ ~HasRow(store, 3)

C26_WaiterNeverLoads ==
    [][\A t \in Tasks : pc[t] = "ld_wait" => ~InLoad(t)']_vars

\* C26 (amended): a caller of embed_text or warm_up that arrives while a
\* load is in flight starts no load and queues on the load lock; when the
\* lock reaches it and the model is installed it uses that model and starts
\* no load, so one successful load serves every caller that arrived during
\* it; when the load it waited for has failed it finds no model and starts
\* the next load itself, still the only one in flight.
C26_WaiterLoadsOnlyAfterFailure ==
    [][\A t \in Tasks :
          /\ (/\ pc[t] = "resume" /\ op[t] \in {"embed_text", "warm_up"}
              /\ \E u \in Tasks : InLoad(u)
              /\ op[t] = "embed_text" => Strip(loc[t].text) # <<>>
              /\ pc'[t] # pc[t])
                => /\ pc'[t] = "ld_wait"
                   /\ vzStat'.started = vzStat.started
          /\ (pc[t] = "ld_wait" /\ pc'[t] # pc[t])
                => /\ vz.lock = t
                   /\ \A u \in Tasks : ~InLoad(u)
                   /\ IF vz.model # NoModel
                      THEN /\ pc'[t] = AfterModel(t)
                           /\ vzStat'.started = vzStat.started
                      ELSE /\ pc'[t] = "ld_mkdirs"
                           /\ vzStat.failed >= 1
                           /\ vzStat'.started = vzStat.started + 1]_vars

\* the load a caller queued behind has failed: the caller holds the lock,
\* finds no model and is about to start the second load
C26_Witness ==
    \E t \in Tasks :
        /\ pc[t] = "ld_wait" /\ vz.lock = t
        /\ vz.model = NoModel
        /\ vzStat.started = 1 /\ vzStat.failed = 1

\* ------------------------------------------- the candidate pool (Spec)
\* the records search_by_vector can return
Joined == {r \in store : r.allowance_id \in catalog}

\* what claim C27 says of a search that asked the store for n candidates
\* and hands at most p of them to the Reranker
PoolShape(t, n, p) ==
    /\ pc[t] = "filter" => Len(loc[t].matches) = Min(n, Cardinality(Joined))
    /\ Len(loc[t].pool) <= p
    /\ Len(build_documents(loc[t].pool)) <= p

\* C27 (as the specification states it): search asks the store for exactly
\* max(requested_limit, configured rerank pool size) candidates and passes
\* at most the configured rerank pool size of them to the Reranker.
C27_PoolIsConfiguredSize ==
    \A t \in Tasks :
        op[t] = "search" =>
            PoolShape(t, Max(Requested(t), cfg.rerank_candidates), cfg.rerank_candidates)

\* C27 (amended): the pool size in effect is max(configured rerank pool
\* size, default limit); search asks the store for exactly
\* max(requested_limit, that pool size) candidates, and the candidates
\* passed to the Reranker are at most max(that pool size,
\* min(requested_limit, max(1, rerank_top_k))).
C27_PoolIsEffectiveSize ==
    \A t \in Tasks :
        op[t] = "search" =>
            LET size == Max(cfg.rerank_candidates, cfg.search_limit) IN
            PoolShape(t, Max(Requested(t), size),
                      Max(size, Min(Requested(t), Max(1, cfg.rerank_top_k))))

\* with a configured pool size of 1 and a default limit of 2, a search with
\* limit 1 has received two candidates from a store of three records and
\* hands both to the Reranker
C27_Witness ==
    \E t \in Tasks :
        /\ op[t] = "search" /\ pc[t] \in {"rr_load", "rr_predict"}
        /\ cfg.rerank_candidates = 1 /\ cfg.search_limit = 2
        /\ loc[t].limit = 1
        /\ Cardinality(Joined) = 3
        /\ Len(loc[t].matches) = 2
        /\ Len(loc[t].pool) = 2

\* ------------------------------------ the shared instances (SpecRepo)
\* C28: once the Vectorizer, or the Reranker, has its model instance, no
\* step of any operation replaces or clears it or starts another load, no
\* caller is inside a load, and every caller that encodes or scores does so
\* with the instance installed.
C28_InstanceStable ==
    [][/\ vz.model # NoModel
            => /\ vz'.model = vz.model
               /\ vzStat'.started = vzStat.started
               /\ \A t \in Tasks : ~InLoad(t)'
       /\ rr.model
            => /\ rr'.model
               /\ rrStat'.started = rrStat.started
               /\ \A t \in Tasks : pc'[t] # "rr_load"
       /\ \A t \in Tasks :
             /\ pc'[t] = "encode" => vz'.model # NoModel
             /\ pc'[t] = "rr_predict" => rr'.model]_vars

\* two searches run on the warmed Vectorizer: one loaded the Reranker's
\* model, the other queued behind that load, and both score with the one
\* instance
C28_Witness ==
    \E t, u \in Tasks :
        /\ t # u
        /\ vz.model # NoModel /\ vzStat.started = 1
        /\ rr.model /\ rrStat.started = 1 /\ rrStat.failed = 0
        /\ op[t] = "search" /\ pc[t] = "rr_predict"
        /\ op[u] = "search" /\ pc[u] = "rr_predict"

\* ------------------------------------- scores and candidates (SpecPool)
\* C29 (as the specification states it): every candidate a reranked search
\* returns has a document, and its score is the Reranker's score of the
\* normalized query and that candidate's own document, also when a
\* candidate of the pool has an empty document.
C29_ScoreOfOwnDocument ==
    \A t \in Tasks :
        (SearchDone(t) /\ loc[t].pool # <<>>)
            => \A j \in 1..Len(res[t].value) :
                  LET i == res[t].value[j].item IN
                  /\ ItemDocument(i) # <<>>
                  /\ res[t].value[j].score = CrossScore(Normalize(loc[t].query), ItemDocument(i))

\* the pool was allowance 3, which has no document, followed by allowance
\* 1: the search has returned allowance 3 with the score of the document of
\* allowance 1
C29_Witness ==
    \E t \in Tasks :
        /\ SearchDone(t)
        /\ Len(loc[t].pool) = 2
        /\ loc[t].pool[1].item = 3 /\ loc[t].pool[2].item = 1
        /\ Len(res[t].value) = 1
        /\ res[t].value[1].item = 3
        /\ res[t].value[1].score = CrossScore(Normalize(loc[t].query), ItemDocument(1))

\* ------------------------------------- termination of callers (SpecLoadFair)
\* C30: provided every load attempt finishes or times out, every caller of
\* embed_text/warm_up eventually returns, with its value or with an error:
\* a failing load releases the lock, so no caller waits on it forever.
C30_CallersReturn ==
    \A t \in Tasks :
        (pc[t] \notin {"idle", "done"})
            ~> (pc[t] = "done" /\ res[t].status \in {"ok", "error"})

\* a load has failed and its caller has the error, and the lock has been
\* handed to the caller that was queued behind it
C30_Witness ==
    \E t, u \in Tasks :
        /\ t # u
        /\ pc[u] = "done" /\ res[u].status = "error"
        /\ res[u].error.what \in {"preflight", "download_failed", "load_timeout",
                                  "load_failed", "dimension_mismatch"}
        /\ pc[t] = "ld_wait"
        /\ vz.lock = t
        /\ vz.waiters = <<>>

====
